---- MODULE Spec2Model ----
(***************************************************************************)
(* Threshold key custody of znode: the key ownership registry              *)
(* (key-ownership-manager.js), the Shamir split / reconstruct entry points *)
(* (TSSManager, MoneroShamirMultisig, ShamirMultisigManager) and the       *)
(* time-bounded signing session (SecureSigningSystem).                     *)
(*                                                                         *)
(* Secrets are modelled as one symbol of the field GF(2^Bits) that         *)
(* secrets.js-grempe shares symbol by symbol; a share is its id and the    *)
(* value of the sharing polynomial at that id.                             *)
(***************************************************************************)
EXTENDS Integers, Sequences, FiniteSets, Bags, TLC

(***************************************************************************)
(* Bounds of the model.                                                    *)
(***************************************************************************)
\* width of one symbol of the sharing field (secrets.js default: 8)
Bits == 4
\* random polynomial coefficients are drawn from 1..MaxCoeff
MaxCoeff == 2
\* private keys (hex symbols) are drawn from 0..MaxSecret
MaxSecret == 1
\* splitKey is called with at most MaxN shares
MaxN == 7
\* generateAndSplit is called with at most MaxEpochShares shares
MaxEpochShares == 3
\* epochs 0..MaxEpoch
MaxEpoch == 1
\* nodes beyond the original TOTAL_KEYS ones
ExtraNodes == 1
\* the clock advances in steps of TickMs, until a key can have expired
TickMs == 50
\* signAndClear / reconstructSignClear calls in flight on one session
MaxCalls == 2
\* retiring members 1..MaxMembers of a refresh
MaxMembers == 2
\* performRefresh calls in flight on one coordinator
MaxRefreshCalls == 2
\* the refresh clock advances in steps of RefreshTickMs
RefreshTickMs == 1001
\* at most MaxSurvivors nodes of a group hand in their primary shares
MaxSurvivors == 6
\* cooperating groups 1..MaxClusters
MaxClusters == 3
\* the registry's epoch runs from 0 to MaxChainEpoch
MaxChainEpoch == 2
\* the clock of the security check advances in steps of SecurityTickMs
SecurityTickMs == 1001
\* the clock of the share backup files advances in steps of FsTickMs
FsTickMs == 86400001
\* calculateOptimalThreshold is called with 0..MaxTotalNodes nodes
MaxTotalNodes == 200
\* lastSelection and the leading digits of the clusterId range over 0..MaxSeed
MaxSeed == 12
\* the monitor runs for MaxStaleMs after the node started
MaxStaleMs == 1500000

(***************************************************************************)
(* Program constants.                                                      *)
(***************************************************************************)
TOTAL_KEYS == 11
MAX_KEY_LIFETIME_MS == 100
\* the share count hard-coded in reconstructMyKey and reconstructKey
REQUIRED_SHARES == 6
\* setTimeout(..., 1000) in reconstructAllKeys
REFRESH_TIMEOUT_MS == 1000
\* resplitAllKeys(newMembers, threshold = 6)
RESPLIT_THRESHOLD == 6
\* checkSecurity: if (age > 5000)
SECURITY_CEILING_MS == 5000
\* backupShare: expiresAt: Date.now() + (48 * 60 * 60 * 1000)
BACKUP_EXPIRY_MS == 172800000
\* coordinateExchangeRound: "Waiting for all 11 nodes to submit"
CLUSTER_SIZE == 11
\* coordinateExchangeRound: const maxWait = 120; waited += 5
EXCHANGE_MAX_WAIT == 120
EXCHANGE_POLL == 5
\* monitorNetwork: setInterval(printStatus, 15000)
MONITOR_INTERVAL_MS == 15000
\* cleanupStaleCluster: baseDelay, the backdating, JITTER_WINDOW_MS and the
\* retry limit
STALE_BASE_DELAY_MS == 600000
STALE_BACKDATE_MS == 601000
JITTER_WINDOW_MS == 300000
CLEANUP_RETRY_MS == 300000
\* Date.now() when the node starts monitoring
MONITOR_START_MS == 1000000
\* CrossClusterBackupManager: this.BACKUP_THRESHOLD, this.BACKUP_TOTAL
BACKUP_THRESHOLD == 3
BACKUP_TOTAL == 5
\* for (let keyIndex = 0; keyIndex < 11; keyIndex++)
BACKUP_KEYS == 11
\* secrets.share(reconstructedFromBackup, 11, 6)
RECOVERY_TOTAL == 11
RECOVERY_THRESHOLD == 6
\* state.activeNodes >= 9 (healthy), state.activeNodes >= 6 (active)
HEALTHY_MIN_NODES == 9
ACTIVE_MIN_NODES == 6

\* JavaScript undefined / null where a number is expected
None == -1

(***************************************************************************)
(* secrets.js-grempe: arithmetic of GF(2^Bits) by log / exp tables.        *)
(***************************************************************************)
FieldSize == 2 ^ Bits
MaxShares == FieldSize - 1
Field == 0..MaxShares

\* secrets.js defaults.primitivePolynomials, indexed by bits (3..8)
PrimitivePolynomial == <<0, 0, 1, 3, 3, 5, 3, 3, 29>>[Bits + 1]

RECURSIVE Xor(_, _)
Xor(a, b) ==
    IF a = 0 THEN b
    ELSE IF b = 0 THEN a
    ELSE (((a % 2) + (b % 2)) % 2) + 2 * Xor(a \div 2, b \div 2)

\* x <<= 1; if (x >= size) { x ^= primitive; x &= maxShares }
NextExp(x) ==
    LET y == 2 * x
    IN  IF y >= FieldSize THEN Xor(y, PrimitivePolynomial) % FieldSize ELSE y

RECURSIVE ExpAt(_)
ExpAt(i) == IF i = 0 THEN 1 ELSE NextExp(ExpAt(i - 1))

\* config.exps (0-based in the library, 1-based here)
Exps == [i \in 1..MaxShares |-> ExpAt(i - 1)]

\* config.logs
Logs == [x \in 1..MaxShares |-> CHOOSE i \in 0..(MaxShares - 1) : Exps[i + 1] = x]

XorTable == [a \in Field |-> [b \in Field |-> Xor(a, b)]]

Add(a, b) == XorTable[a][b]

Mul(a, b) ==
    IF a = 0 \/ b = 0 THEN 0
    ELSE Exps[((Logs[a] + Logs[b]) % MaxShares) + 1]

Div(a, b) ==
    IF a = 0 THEN 0
    ELSE Exps[((Logs[a] - Logs[b] + MaxShares) % MaxShares) + 1]

\* horner(x, coeffs): coeffs[1] is the secret, coeffs[k] the top coefficient
RECURSIVE Horner(_, _, _)
Horner(x, coeffs, i) ==
    IF i = Len(coeffs) THEN coeffs[i]
    ELSE Add(Mul(Horner(x, coeffs, i + 1), x), coeffs[i])

\* secrets.share rejects these parameters
ShareParamsOk(numShares, threshold) ==
    /\ numShares >= 2
    /\ numShares <= MaxShares
    /\ threshold >= 2
    /\ threshold <= numShares

\* secrets.share(secret, numShares, threshold) with the random coefficients
\* rnd (threshold - 1 nonzero symbols): share i is (i, f(i)), f(0) = secret
SecretsShare(secret, numShares, rnd) ==
    [i \in 1..numShares |-> [id |-> i, data |-> Horner(i, <<secret>> \o rnd, 1)]]

\* combine keeps the first share of every id (x.indexOf(share.id) === -1)
RECURSIVE DedupById(_, _)
DedupById(shares, seen) ==
    IF shares = <<>> THEN <<>>
    ELSE IF Head(shares).id \in seen THEN DedupById(Tail(shares), seen)
    ELSE <<Head(shares)>> \o DedupById(Tail(shares), seen \cup {Head(shares).id})

\* one term of lagrange(0, x, y): y_i * prod_{j # i} x_j / (x_i ^ x_j)
RECURSIVE LagrangeTerm(_, _, _)
LagrangeTerm(pts, i, j) ==
    IF j > Len(pts) THEN pts[i].data
    ELSE IF j = i THEN LagrangeTerm(pts, i, j + 1)
    ELSE Mul(LagrangeTerm(pts, i, j + 1),
             Div(pts[j].id, Add(pts[i].id, pts[j].id)))

RECURSIVE LagrangeSum(_, _)
LagrangeSum(pts, i) ==
    IF i > Len(pts) THEN 0
    ELSE Add(LagrangeTerm(pts, i, 1), LagrangeSum(pts, i + 1))

\* extractShareComponents throws on a share whose id is not in 1..maxShares
SharesWellFormed(shares) ==
    \A i \in 1..Len(shares) : shares[i].id \in 1..MaxShares

\* secrets.combine(shares) on well-formed shares
SecretsCombine(shares) == LagrangeSum(DedupById(shares, {}), 1)

(***************************************************************************)
(* State.                                                                  *)
(***************************************************************************)
VARIABLES
    \* KeyOwnershipManager
    keyOwnership,     \* Map keyIndex -> owner
    nodeToKey,        \* Map nodeAddress -> keyIndex
    ownInitialized,   \* an initializeOwnership call has succeeded
    ownRes,           \* outcome of the last registry call
    \* shares in circulation
    tss,              \* the shares the last splitKey call returned
    wallets,          \* epoch -> what generateAndSplit returned for it
    reconRes,         \* outcome of the last reconstruction call
    selected,         \* what getMySigningShares returned to the signing node
    \* SecureSigningSystem (one session)
    myKey,            \* this.myKey, None when null
    keyTimestamp,     \* this.keyTimestamp, None when null
    destructTimer,    \* deadline of the armed auto-destruct timer, or None
    keySigns,         \* signFunction invocations with the key now held
    now,              \* Date.now()
    inflight,         \* the calls awaiting a promise, by call id
    lastDone,         \* the call that settled last
    \* RefreshCoordinator
    allKeys,          \* Map nodeAddress -> reconstructed key
    reconstructionTimestamp, \* this.reconstructionTimestamp, None when null
    refreshTimer,     \* deadline of the armed refresh timer, or None
    refreshCalls,     \* the performRefresh calls awaiting a promise
    lastRefresh,      \* the coordinator call that ended last
    \* CrossClusterBackupManager
    recIn,            \* the inputs of a recoverFromCatastrophicFailure call
    recOut,           \* what that call returned
    clusterActive,    \* group -> its number of active members
    clusterDead,      \* the groups reported DEAD / INACTIVE
    storedBackups,    \* the source groups this node stores backup files for
    \* ShamirMultisigManager and the ZNode that owns it
    myShare,          \* this.myShare: NoShare or the share held
    currentEpoch,     \* this.currentEpoch
    registryEpoch,    \* registry.currentEpoch() on chain
    shareBackupFiles, \* the epochs of this node's share backup files
    triggeredEpoch,   \* newEpoch of the last ResharingTriggered event handled
    mgrRes,           \* the outcome of the last manager / node call
    \* MoneroShamirMultisig share backups on disk
    shareBackupDir,   \* file name -> the backup object the file holds
    fsNow,            \* Date.now() of the backup calls
    loadRes,          \* what the last loadShareBackup call returned
    \* ZNode multisig key-exchange rounds
    exSubmitted,      \* round -> number of peers whose info the registry holds
    exOwn,            \* round -> has this node's info been submitted
    exCall,           \* the coordinateExchangeRound call in progress
    exRes,            \* the outcome of the last coordinateExchangeRound call
    \* CrossClusterBackupManager.distributeToOtherClusters
    distIn,           \* the arguments and the answers of the network
    distRes,          \* what the call did
    \* a reader of the ownership maps
    lookupRes,        \* what the last lookups observed
    \* MoneroShamirMultisig.calculateOptimalThreshold
    thrIn,            \* totalNodes
    thrOut,           \* the threshold returned, None before the call
    \* ZNode.monitorNetwork: the coordinator election of a forming cluster
    elIn,             \* what getFormingCluster and the clusterId show
    elDecision,       \* node -> what its monitor tick decided
    \* ZNode.cleanupStaleCluster
    stNode,           \* _staleClusterStart, _cleanupJitterMs, _lastCleanupAttempt
    stRegistry,       \* the forming cluster the registry shows
    stNow,            \* Date.now() at the monitor ticks
    stWallet,         \* the jitter the wallet address yields
    stLog             \* the on-chain cleanup attempts made

ownVars == <<keyOwnership, nodeToKey, ownInitialized, ownRes>>
sessVars == <<myKey, keyTimestamp, destructTimer, keySigns, now, inflight, lastDone>>

shareVars == <<tss, wallets, selected>>

refreshVars == <<allKeys, reconstructionTimestamp, refreshTimer, refreshCalls, lastRefresh>>

\* the components beyond the registry, the shares and the signing session
backupVars == <<recIn, recOut, clusterActive, clusterDead, storedBackups>>
mgrVars == <<myShare, currentEpoch, registryEpoch, shareBackupFiles,
             triggeredEpoch, mgrRes>>
fsVars == <<shareBackupDir, fsNow, loadRes>>
\* the components added after the share manager
exVars == <<exSubmitted, exOwn, exCall, exRes>>
distVars == <<distIn, distRes>>
lookupVars == <<lookupRes>>
laterVars == <<fsVars, exVars, distVars, lookupVars>>
calcVars == <<thrIn, thrOut>>
\* the node-level helpers
electVars == <<elIn, elDecision>>
staleVars == <<stNode, stRegistry, stNow, stWallet, stLog>>
tailVars == <<calcVars, electVars, staleVars>>
otherVars == <<refreshVars, backupVars, mgrVars, laterVars, tailVars>>

vars == <<ownVars, shareVars, reconRes, sessVars, otherVars>>

(***************************************************************************)
(* JavaScript Map helpers.                                                 *)
(***************************************************************************)
EmptyMap == <<>>
MapSet(m, k, v) == [x \in (DOMAIN m) \cup {k} |-> IF x = k THEN v ELSE m[x]]
MapDelete(m, k) == [x \in (DOMAIN m) \ {k} |-> m[x]]
MapHas(m, k) == k \in DOMAIN m

(***************************************************************************)
(* Key ownership registry (key-ownership-manager.js).                      *)
(***************************************************************************)
Slots == 0..(TOTAL_KEYS - 1)
Nodes == 1..(TOTAL_KEYS + ExtraNodes)
OriginalNodes == [i \in 1..TOTAL_KEYS |-> i]

\* the nodes that leave or join in the transfers of the model: the first
\* two original nodes and the newcomers
Movers == {OriginalNodes[1], OriginalNodes[2]}
              \cup ((TOTAL_KEYS + 1)..(TOTAL_KEYS + ExtraNodes))

\* the node lists initializeOwnership is called with: the original nodes,
\* a list naming one node twice, a list with a newcomer, a list one short
InitLists ==
    { OriginalNodes,
      [i \in 1..TOTAL_KEYS |-> IF i = 2 THEN 1 ELSE i],
      [i \in 1..TOTAL_KEYS |-> IF i = 1 THEN TOTAL_KEYS + 1 ELSE i],
      [i \in 1..(TOTAL_KEYS - 1) |-> i] }

NoRes == [op |-> "none", ok |-> TRUE, val |-> None, a |-> 0, b |-> 0]

\* for (let i = 0; i < TOTAL_KEYS; i++) { keyOwnership.set(i, nodes[i]) }
RECURSIVE InitKeyOwnership(_, _, _)
InitKeyOwnership(ko, nodes, i) ==
    IF i >= TOTAL_KEYS THEN ko
    ELSE InitKeyOwnership(MapSet(ko, i, nodes[i + 1]), nodes, i + 1)

\* for (let i = 0; i < TOTAL_KEYS; i++) { nodeToKey.set(nodes[i], i) }
RECURSIVE InitNodeToKey(_, _, _)
InitNodeToKey(nk, nodes, i) ==
    IF i >= TOTAL_KEYS THEN nk
    ELSE InitNodeToKey(MapSet(nk, nodes[i + 1], i), nodes, i + 1)

InitializeOwnership(originalNodes) ==
    /\ IF Len(originalNodes) # TOTAL_KEYS
       THEN /\ ownRes' = [op |-> "initializeOwnership", ok |-> FALSE, val |-> None,
                          a |-> 0, b |-> 0]
            /\ UNCHANGED <<keyOwnership, nodeToKey, ownInitialized>>
       ELSE /\ keyOwnership' = InitKeyOwnership(keyOwnership, originalNodes, 0)
            /\ nodeToKey' = InitNodeToKey(nodeToKey, originalNodes, 0)
            /\ ownInitialized' = TRUE
            /\ ownRes' = [op |-> "initializeOwnership", ok |-> TRUE, val |-> None,
                          a |-> 0, b |-> 0]
    /\ UNCHANGED <<shareVars, otherVars, reconRes, sessVars>>

\* a transfer that drops the slot's entry instead of reassigning it
TransferKeyOwnershipDropsSlot(ko, keyIndex, joiningNode) == MapDelete(ko, keyIndex)

\* the three Map updates of a successful transferKey
TransferKeyOwnership(ko, keyIndex, joiningNode) == MapSet(ko, keyIndex, joiningNode)

\* a transfer that forgets nodeToKey.delete(leavingNode)
TransferNodeToKeyKeepsLeaving(nk, keyIndex, leavingNode, joiningNode) ==
    MapSet(nk, joiningNode, keyIndex)

\* a transfer that returns with only keyOwnership updated
TransferNodeToKeyTorn(nk, keyIndex, leavingNode, joiningNode) == nk

TransferNodeToKey(nk, keyIndex, leavingNode, joiningNode) ==
    MapSet(MapDelete(nk, leavingNode), joiningNode, keyIndex)

\* transferKey(leavingNode, joiningNode) on the registry: the throw, or the
\* three Map updates, made without an await in between
TransferKeyMaps(leavingNode, joiningNode) ==
    IF ~MapHas(nodeToKey, leavingNode)
    THEN /\ ownRes' = [op |-> "transferKey", ok |-> FALSE, val |-> None,
                       a |-> leavingNode, b |-> joiningNode]
         /\ UNCHANGED <<keyOwnership, nodeToKey>>
    ELSE LET keyIndex == nodeToKey[leavingNode]
         IN  /\ keyOwnership' = TransferKeyOwnership(keyOwnership, keyIndex, joiningNode)
             /\ nodeToKey' = TransferNodeToKey(nodeToKey, keyIndex, leavingNode, joiningNode)
             /\ ownRes' = [op |-> "transferKey", ok |-> TRUE, val |-> keyIndex,
                           a |-> leavingNode, b |-> joiningNode]

TransferKey(leavingNode, joiningNode) ==
    /\ TransferKeyMaps(leavingNode, joiningNode)
    /\ UNCHANGED <<ownInitialized, shareVars, otherVars, reconRes, sessVars>>

\* exportState() of a registry holding the first count slots of the original
\* nodes: the entries of both maps
ExportState(count) ==
    [keyOwnership |-> [k \in 0..(count - 1) |-> OriginalNodes[k + 1]],
     nodeToKey |-> [n \in 1..count |-> n - 1]]

\* the snapshots importState is called with: of an empty registry, of one
\* persisted with its last slot not yet assigned, of a complete one
ImportStates == {ExportState(0), ExportState(TOTAL_KEYS - 1), ExportState(TOTAL_KEYS)}

\* importState(state): both maps are replaced by the snapshot's
ImportState(state) ==
    /\ keyOwnership' = state.keyOwnership
    /\ nodeToKey' = state.nodeToKey
    /\ ownRes' = [op |-> "importState", ok |-> TRUE, val |-> None, a |-> 0, b |-> 0]
    /\ UNCHANGED <<ownInitialized, shareVars, otherVars, reconRes, sessVars>>

\* getKeyForNode / getMyKeyIndex: the slot, or None where the code throws
GetKeyForNode(nodeAddress) ==
    IF MapHas(nodeToKey, nodeAddress) THEN nodeToKey[nodeAddress] ELSE None

\* getNodeForKey: the owner, or None where the code throws
GetNodeForKey(keyIndex) ==
    IF MapHas(keyOwnership, keyIndex) THEN keyOwnership[keyIndex] ELSE None

\* verifyAllKeysOwned: TRUE where it returns true, FALSE where it throws
VerifyAllKeysOwned ==
    LET ownedKeys == DOMAIN keyOwnership
        missingKeys == {i \in Slots : i \notin ownedKeys}
    IN  missingKeys = {}

(***************************************************************************)
(* Share lists handed to the reconstruction entry points.                  *)
(***************************************************************************)
\* the shares of seq at the positions in S, in their order in seq
RECURSIVE PickFrom(_, _, _)
PickFrom(seq, S, i) ==
    IF i > Len(seq) THEN <<>>
    ELSE (IF i \in S THEN <<seq[i]>> ELSE <<>>) \o PickFrom(seq, S, i + 1)

SubLists(seq) == {PickFrom(seq, S, 1) : S \in SUBSET (1..Len(seq))}

\* shares.slice(0, n)
Slice(seq, n) == SubSeq(seq, 1, IF Len(seq) < n THEN Len(seq) ELSE n)

RECURSIVE SeqRange(_)
SeqRange(seq) == IF seq = <<>> THEN {} ELSE {Head(seq)} \cup SeqRange(Tail(seq))

\* the last reconstruction call: its outcome, how many shares it was given
\* and the epochs they carried
NoRecon == [op |-> "none", ok |-> FALSE, value |-> None, count |-> 0, epochs |-> {}]

(***************************************************************************)
(* TSSManager (unnamed/part_007).                                          *)
(***************************************************************************)
PrivateKeys == [prefix0x : BOOLEAN, hex : 0..MaxSecret]

\* privateKey.startsWith('0x') ? privateKey.slice(2) : privateKey
CleanKey(privateKey) == [prefix0x |-> FALSE, hex |-> privateKey.hex]

NoSplit == [secret |-> [prefix0x |-> FALSE, hex |-> 0], n |-> 0, k |-> 0,
            shares |-> <<>>, err |-> FALSE]

\* the coefficients secrets.share draws for a threshold
Coefficients(threshold) == [1..(threshold - 1) -> 1..MaxCoeff]

\* splitKey(privateKey, totalShares, threshold); rnd is the library's draw
SplitKey(privateKey, totalShares, threshold, rnd) ==
    IF ~ShareParamsOk(totalShares, threshold)
    THEN [NoSplit EXCEPT !.err = TRUE]
    ELSE [secret |-> privateKey, n |-> totalShares, k |-> threshold,
          shares |-> SecretsShare(CleanKey(privateKey).hex, totalShares, rnd),
          err |-> FALSE]

\* what splitKey can return for the keys and parameters of the model
SplitKeyResults(keys) ==
    { SplitKey(key, n, k, rnd) :
        <<key, n, k, rnd>> \in
            UNION { {<<key, n, k, rnd>> : rnd \in Coefficients(k)} :
                      <<key, n, k>> \in keys \X ((MaxN - 1)..MaxN) \X (2..MaxN) } }

\* the share count below which reconstructKey refuses
ReconstructKeyMinimum == REQUIRED_SHARES

\* reconstructKey(shares)
ReconstructKey(shares) ==
    /\ IF Len(shares) < ReconstructKeyMinimum \/ ~SharesWellFormed(shares)
       THEN reconRes' = [op |-> "reconstructKey", ok |-> FALSE, value |-> None,
                         count |-> Len(shares), epochs |-> {}]
       ELSE reconRes' = [op |-> "reconstructKey", ok |-> TRUE,
                         value |-> SecretsCombine(shares),
                         count |-> Len(shares), epochs |-> {}]
    /\ UNCHANGED <<ownVars, shareVars, otherVars, sessVars>>

(***************************************************************************)
(* MoneroShamirMultisig (monero-shamir.js) and ShamirMultisigManager       *)
(* (shamir-integration.js).                                                *)
(***************************************************************************)
Epochs == 0..MaxEpoch

NoWallet == [privateKey |-> None, shares |-> <<>>, epoch |-> None]

\* generateAndSplit(totalShares, threshold, epoch); key and rnd are the
\* draws of crypto.randomBytes and of the library
GenerateAndSplit(totalShares, threshold, epoch, key, rnd) ==
    /\ ShareParamsOk(totalShares, threshold)
    /\ LET shares == SecretsShare(key, totalShares, rnd)
       IN  wallets' = [wallets EXCEPT ![epoch] =
               [privateKey |-> key,
                shares |-> [i \in 1..totalShares |->
                               [index |-> i, share |-> shares[i], epoch |-> epoch,
                                threshold |-> threshold, totalShares |-> totalShares]],
                epoch |-> epoch]]
    /\ reconRes' = NoRecon
    /\ UNCHANGED <<ownVars, tss, selected, sessVars, otherVars>>

\* const epochs = new Set(shares.map(s => s.share.epoch))
EpochsOf(shares) == {shares[i].epoch : i \in 1..Len(shares)}

\* MoneroShamirMultisig.reconstruct(shares): the key, or None where it throws
\* (shares[0] of an empty list is undefined)
ShamirReconstruct(shares) ==
    IF shares = <<>> THEN None
    ELSE IF Len(shares) < shares[1].threshold THEN None
    ELSE LET shareStrings == [i \in 1..Len(shares) |-> shares[i].share]
         IN  IF SharesWellFormed(shareStrings) THEN SecretsCombine(shareStrings)
             ELSE None

Reconstruct(shares) ==
    /\ LET r == ShamirReconstruct(shares)
       IN  reconRes' = [op |-> "reconstruct", ok |-> r # None, value |-> r,
                        count |-> Len(shares), epochs |-> EpochsOf(shares)]
    /\ UNCHANGED <<ownVars, shareVars, otherVars, sessVars>>

\* reconstructAndSign(shares, moneroTxData) on the share objects of the
\* participants: the key the signature is made with, or None where it throws
ReconstructAndSignKey(shares) ==
    IF Cardinality(EpochsOf(shares)) > 1 THEN None
    ELSE IF shares = <<>> THEN None
    ELSE IF Len(shares) < shares[1].threshold THEN None
    ELSE ShamirReconstruct(shares)

ReconstructAndSign(shares) ==
    /\ LET r == ReconstructAndSignKey(shares)
       IN  reconRes' = [op |-> "reconstructAndSign", ok |-> r # None, value |-> r,
                        count |-> Len(shares), epochs |-> EpochsOf(shares)]
    /\ UNCHANGED <<ownVars, shareVars, otherVars, sessVars>>

\* the share lists a caller can assemble from the wallets of two epochs
EpochShareLists ==
    {a \o b : a \in SubLists(wallets[0].shares), b \in SubLists(wallets[MaxEpoch].shares)}
    \cup
    {b \o a : a \in SubLists(wallets[0].shares), b \in SubLists(wallets[MaxEpoch].shares)}

(***************************************************************************)
(* SecureSigningSystem (secure-signing-system.js): one signing session.    *)
(* An async call is a record in the bag inflight while it awaits a         *)
(* promise; every action below is one run-to-completion step of the event  *)
(* loop.                                                                   *)
(***************************************************************************)
\* kind: the method called; pc: the await the call is suspended at
\* late: the call reached the expiry check with a key older than the TTL
\* invoked / sf: signFunction was invoked / how it ended
\* sacResult, sacKeyHeld: how signAndClear ended, whether myKey was set then
\* result, keyHeld: the same for the whole call
NoCall == [kind |-> "none", pc |-> "done", reconOk |-> FALSE, hadKey |-> FALSE,
           late |-> FALSE, invoked |-> FALSE, sf |-> "none", sacResult |-> "none",
           sacKeyHeld |-> FALSE, result |-> "none", keyHeld |-> FALSE]

Suspend(rec) == inflight (+) SetToBag({rec})
Resume(rec) == inflight (-) SetToBag({rec})
Suspended == BagToSet(inflight)

\* a clearMyKey that leaves this.keyTimestamp as it is
ClearedTimestampKept == keyTimestamp

\* clearMyKey(): what it leaves in keyTimestamp
ClearedTimestamp == IF myKey # None THEN None ELSE keyTimestamp

ClearMyKey ==
    /\ myKey' = None
    /\ keyTimestamp' = ClearedTimestamp
    /\ keySigns' = 0

\* an expiry check that takes Date.now() for seconds
KeyExpiredInSeconds(age) == age > MAX_KEY_LIFETIME_MS * 1000

\* if (age > this.MAX_KEY_LIFETIME_MS)
KeyExpired(age) == age > MAX_KEY_LIFETIME_MS

\* a signAndClear that clears after the await instead of in finally
KeyAfterSignNoFinally(key, sf) == IF sf = "sig" THEN None ELSE key

\* myKey once the try / finally around the signFunction call is left
KeyAfterSign(key, sf) == None

\* reconstructMyKey(myShares): the session and reconRes after the call
ReconstructMyKeyEffect(myShares) ==
    IF Len(myShares) < REQUIRED_SHARES
    THEN /\ reconRes' = [op |-> "reconstructMyKey", ok |-> FALSE, value |-> None,
                         count |-> Len(myShares), epochs |-> {}]
         /\ UNCHANGED <<myKey, keyTimestamp, destructTimer, keySigns>>
    ELSE IF ~SharesWellFormed(Slice(myShares, REQUIRED_SHARES))
    THEN \* catch: clearTimeout, clearMyKey, rethrow
         /\ ClearMyKey
         /\ destructTimer' = None
         /\ reconRes' = [op |-> "reconstructMyKey", ok |-> FALSE, value |-> None,
                         count |-> Len(myShares), epochs |-> {}]
    ELSE \* the timer set before combine is cleared before the function returns
         /\ myKey' = SecretsCombine(Slice(myShares, REQUIRED_SHARES))
         /\ keyTimestamp' = now
         /\ destructTimer' = None
         /\ keySigns' = 0
         /\ reconRes' = [op |-> "reconstructMyKey", ok |-> TRUE,
                         value |-> SecretsCombine(Slice(myShares, REQUIRED_SHARES)),
                         count |-> Len(myShares), epochs |-> {}]

ReconstructMyKey(myShares) ==
    /\ ReconstructMyKeyEffect(myShares)
    /\ UNCHANGED <<ownVars, shareVars, otherVars, now, inflight, lastDone>>

\* the promise of signAndClear settles: a direct call is over, a call made
\* by reconstructSignClear resumes there in a later step
SacSettled(rest, rec) ==
    IF rec.kind = "signAndClear"
    THEN /\ inflight' = rest
         /\ lastDone' = [rec EXCEPT !.pc = "done", !.result = rec.sacResult,
                                    !.keyHeld = rec.sacKeyHeld]
    ELSE /\ inflight' = rest (+) SetToBag({[rec EXCEPT !.pc = "awaitSac"]})
         /\ UNCHANGED lastDone

\* signAndClear(signFunction) up to its await, for the call rec; rest are
\* the other suspended calls
SignAndClearBegin(rest, rec) ==
    IF myKey = None
    THEN /\ UNCHANGED <<myKey, keyTimestamp, keySigns>>
         /\ SacSettled(rest, [rec EXCEPT !.sacResult = "NoKey"])
    ELSE LET age == now - keyTimestamp
             late == now - keyTimestamp > MAX_KEY_LIFETIME_MS
         IN  IF KeyExpired(age)
             THEN /\ ClearMyKey
                  /\ SacSettled(rest, [rec EXCEPT !.hadKey = TRUE, !.late = late,
                                                  !.sacResult = "KeyExpired",
                                                  !.sacKeyHeld = (myKey' # None)])
             ELSE \/ \* signFunction throws before returning a promise
                     /\ myKey' = KeyAfterSign(myKey, "throw")
                     /\ keyTimestamp' = IF myKey' = None THEN None ELSE keyTimestamp
                     /\ keySigns' = IF myKey' = None THEN 0 ELSE keySigns + 1
                     /\ SacSettled(rest, [rec EXCEPT !.hadKey = TRUE, !.late = late,
                                                     !.invoked = TRUE, !.sf = "throw",
                                                     !.sacResult = "SignError",
                                                     !.sacKeyHeld = (myKey' # None)])
                  \/ \* signFunction returns; the call awaits its result
                     /\ keySigns' = keySigns + 1
                     /\ inflight' = rest (+) SetToBag({
                            [rec EXCEPT !.hadKey = TRUE, !.late = late,
                                        !.invoked = TRUE, !.pc = "awaitSign"]})
                     /\ UNCHANGED <<myKey, keyTimestamp, lastDone>>

SignAndClear ==
    /\ BagCardinality(inflight) < MaxCalls
    /\ SignAndClearBegin(inflight, [NoCall EXCEPT !.kind = "signAndClear"])
    /\ UNCHANGED <<ownVars, shareVars, otherVars, reconRes, destructTimer, now>>

\* the awaited signFunction result arrives: finally { clearMyKey() }
SignSettles(rec) ==
    /\ rec.pc = "awaitSign"
    /\ \E sf \in {"sig", "reject"} :
          /\ myKey' = KeyAfterSign(myKey, sf)
          /\ keyTimestamp' = IF myKey' = None THEN ClearedTimestamp ELSE keyTimestamp
          /\ keySigns' = IF myKey' = None THEN 0 ELSE keySigns
          /\ SacSettled(Resume(rec),
                        [rec EXCEPT !.sf = sf,
                                    !.sacResult = IF sf = "sig" THEN "Signature"
                                                  ELSE "SignError",
                                    !.sacKeyHeld = (myKey' # None)])
    /\ UNCHANGED <<ownVars, shareVars, otherVars, reconRes, destructTimer, now>>

\* reconstructSignClear(myShares, signFunction) up to its first await
ReconstructSignClear(myShares) ==
    /\ BagCardinality(inflight) < MaxCalls
    /\ ReconstructMyKeyEffect(myShares)
    /\ inflight' = Suspend([NoCall EXCEPT !.kind = "reconstructSignClear",
                                          !.pc = "awaitRecon",
                                          !.reconOk = reconRes'.ok])
    /\ UNCHANGED <<ownVars, shareVars, otherVars, now, lastDone>>

\* reconstructSignClear resumes after await reconstructMyKey
RscAfterRecon(rec) ==
    /\ rec.pc = "awaitRecon"
    /\ IF rec.reconOk
       THEN SignAndClearBegin(Resume(rec), rec)
       ELSE \* catch: clearMyKey, rethrow
            /\ ClearMyKey
            /\ inflight' = Resume(rec)
            /\ lastDone' = [rec EXCEPT !.pc = "done", !.result = "ReconError",
                                       !.keyHeld = FALSE]
    /\ UNCHANGED <<ownVars, shareVars, otherVars, reconRes, destructTimer, now>>

\* reconstructSignClear resumes after await signAndClear
RscAfterSac(rec) ==
    /\ rec.pc = "awaitSac"
    /\ IF rec.sacResult = "Signature"
       THEN UNCHANGED <<myKey, keyTimestamp, keySigns>>
       ELSE ClearMyKey
    /\ inflight' = Resume(rec)
    /\ lastDone' = [rec EXCEPT !.pc = "done", !.result = rec.sacResult,
                               !.keyHeld = (myKey' # None)]
    /\ UNCHANGED <<ownVars, shareVars, otherVars, reconRes, destructTimer, now>>

\* a direct clearMyKey() call
ClearMyKeyCall ==
    /\ ClearMyKey
    /\ UNCHANGED <<ownVars, shareVars, otherVars, reconRes, destructTimer, now, inflight, lastDone>>

\* time passes; a timer that is still armed at its deadline runs its callback
Tick ==
    /\ now <= MAX_KEY_LIFETIME_MS
    /\ now' = now + TickMs
    /\ IF destructTimer # None /\ now' >= destructTimer
       THEN ClearMyKey /\ destructTimer' = None
       ELSE UNCHANGED <<myKey, keyTimestamp, keySigns, destructTimer>>
    /\ UNCHANGED <<ownVars, shareVars, otherVars, reconRes, inflight, lastDone>>

\* the shares of the session's own key: REQUIRED_SHARES of them reconstruct it
SessionSharing ==
    SplitKey([prefix0x |-> FALSE, hex |-> 1], REQUIRED_SHARES, REQUIRED_SHARES,
             [i \in 1..(REQUIRED_SHARES - 1) |-> 1])

\* the share lists the session is handed: one share short, or all
SessionShareLists ==
    {Slice(tss.shares, m) : m \in (REQUIRED_SHARES - 1)..REQUIRED_SHARES}

(***************************************************************************)
(* RefreshWithOwnership.getMySigningShares (key-ownership-manager.js) and  *)
(* the signing node's use of it.                                           *)
(***************************************************************************)
\* the node the signing session belongs to (SecureSigningSystem.nodeAddress)
SessionNode == OriginalNodes[1]

\* the private key of every slot
SlotSecret(slot) == slot + 1

\* allMyShares: for every slot the shares the signing node can hand to its
\* session, REQUIRED_SHARES of the slot's key
AllMyShares ==
    [slot \in Slots |->
        SecretsShare(SlotSecret(slot), REQUIRED_SHARES,
                     [i \in 1..(REQUIRED_SHARES - 1) |-> 1])]

\* allMyShares arrays a caller can pass: the regular one; one whose lists
\* are REQUIRED_SHARES copies of the slot's first share; one whose lists are
\* a share short; one whose lists start with a share secrets.combine cannot
\* parse
SigningShareArrays ==
    { AllMyShares,
      [slot \in Slots |-> [i \in 1..REQUIRED_SHARES |-> AllMyShares[slot][1]]],
      [slot \in Slots |-> Slice(AllMyShares[slot], REQUIRED_SHARES - 1)],
      [slot \in Slots |->
          [i \in 1..REQUIRED_SHARES |->
              IF i = 1 THEN [id |-> 0, data |-> 0] ELSE AllMyShares[slot][i]]] }

NoSelection == [ok |-> FALSE, myKeyIndex |-> None, myShares |-> <<>>]

\* getMySigningShares(myNodeAddress, allMyShares); getMyKeyIndex throws for
\* a node that owns no key
GetMySigningShares(myNodeAddress, allMyShares) ==
    /\ LET myKeyIndex == GetKeyForNode(myNodeAddress)
       IN  IF myKeyIndex = None
           THEN selected' = NoSelection
           ELSE selected' = [ok |-> TRUE, myKeyIndex |-> myKeyIndex,
                             myShares |-> allMyShares[myKeyIndex]]
    /\ UNCHANGED <<ownVars, tss, wallets, reconRes, sessVars, otherVars>>

\* the signing node hands the shares it was given to its session
ReconstructSelected ==
    /\ selected.ok
    /\ ReconstructMyKeyEffect(selected.myShares)
    /\ selected' = NoSelection
    /\ UNCHANGED <<ownVars, tss, wallets, now, inflight, lastDone, otherVars>>

(***************************************************************************)
(* RefreshCoordinator (secure-signing-system.js): reconstructs the keys of *)
(* the retiring members, re-splits them for the new members, hands the new *)
(* share sets to the caller's callback and clears the keys.                *)
(***************************************************************************)
Members == 1..MaxMembers

\* the key of a retiring member
MemberSecret(m) == m

\* the REQUIRED_SHARES shares collected for a member's key
MemberShares(m) ==
    SecretsShare(MemberSecret(m), REQUIRED_SHARES,
                 [i \in 1..(REQUIRED_SHARES - 1) |-> 1])

\* collectedShares: complete, or one share short for the last member
CollectedAll == [m \in Members |-> MemberShares(m)]
CollectedShort ==
    [m \in Members |->
        IF m = MaxMembers THEN Slice(MemberShares(m), REQUIRED_SHARES - 1)
        ELSE MemberShares(m)]
CollectedSets == {CollectedAll, CollectedShort}

\* originalMembers: the first member, or all of them
AllMembers == [i \in 1..MaxMembers |-> i]
MemberLists == {<<1>>, AllMembers}

\* secrets.combine(shares.slice(0, 6)) for the share lists that are collected
CombinedKeys ==
    [shares \in {Slice(c[m], REQUIRED_SHARES) : c \in CollectedSets, m \in Members}
        |-> SecretsCombine(shares)]

\* newMembers.length: one short of the re-split threshold, or the threshold
NewMemberCounts == (RESPLIT_THRESHOLD - 1)..RESPLIT_THRESHOLD

\* one call on the coordinator. pc: the await a performRefresh call is
\* suspended at; members: its originalMembers; newCount: newMembers.length
\* while still to be used; distArg: the original nodes whose new share sets
\* the callback received; keys: the nodes in allKeys when the call ended
NoRefresh == [kind |-> "none", pc |-> "done", members |-> {}, newCount |-> 0,
              reconOk |-> FALSE, resplitOk |-> FALSE, distCalls |-> 0,
              distArg |-> {}, result |-> "none", keys |-> {},
              leavingNode |-> None, joiningNode |-> None,
              transferredKeyIndex |-> None]

RefreshSuspended == BagToSet(refreshCalls)

\* clearAllKeys(): nothing happens on an empty map
ClearedAllKeys(keys) == EmptyMap
ClearedReconstructionTimestamp(keys) ==
    IF keys = EmptyMap THEN reconstructionTimestamp ELSE None

\* a catch block that rethrows without clearing
KeysAfterCatchNoClear(keys) == keys

\* performRefresh: catch (error) { this.clearAllKeys(); throw error; }
KeysAfterCatch(keys) == ClearedAllKeys(keys)

\* reconstructAllKeys writes into the map as it finds it
KeysAtReconstructStart(keys) == keys

\* the loop of reconstructAllKeys from member i on: the map it builds and
\* whether it got through
RECURSIVE ReconstructLoop(_, _, _, _)
ReconstructLoop(keys, collectedShares, originalMembers, i) ==
    IF i > Len(originalMembers) THEN [ok |-> TRUE, keys |-> keys]
    ELSE LET nodeAddr == originalMembers[i]
             shares == collectedShares[nodeAddr]
         IN  IF Len(shares) < REQUIRED_SHARES
             THEN [ok |-> FALSE, keys |-> keys]
             ELSE ReconstructLoop(
                      MapSet(keys, nodeAddr,
                             CombinedKeys[Slice(shares, REQUIRED_SHARES)]),
                      collectedShares, originalMembers, i + 1)

\* reconstructAllKeys(collectedShares, originalMembers)
ReconstructAllKeysResult(collectedShares, originalMembers) ==
    ReconstructLoop(KeysAtReconstructStart(allKeys), collectedShares,
                    originalMembers, 1)

\* what reconstructAllKeys leaves behind when its loop ended as r: the timer
\* armed at its start is cleared before it returns or throws
ReconstructAllKeysEffect(r) ==
    /\ refreshTimer' = None
    /\ IF r.ok
       THEN /\ allKeys' = r.keys
            /\ reconstructionTimestamp' = now
       ELSE /\ allKeys' = ClearedAllKeys(r.keys)
            /\ reconstructionTimestamp' = ClearedReconstructionTimestamp(r.keys)

\* resplitAllKeys(newMembers): fails on an empty map and when secrets.share
\* rejects newMembers.length shares at the threshold
ResplitOk(keys, newCount) ==
    /\ keys # EmptyMap
    /\ ShareParamsOk(newCount, RESPLIT_THRESHOLD)

\* the frame of every coordinator action
RefreshFrame ==
    UNCHANGED <<ownVars, shareVars, reconRes, sessVars, backupVars, mgrVars,
                laterVars, tailVars>>

\* a direct reconstructAllKeys call
ReconstructAllKeys(collectedShares, originalMembers) ==
    /\ LET r == ReconstructAllKeysResult(collectedShares, originalMembers)
       IN  /\ ReconstructAllKeysEffect(r)
           /\ lastRefresh' = [NoRefresh EXCEPT
                                 !.kind = "reconstructAllKeys",
                                 !.members = SeqRange(originalMembers),
                                 !.reconOk = r.ok,
                                 !.result = IF r.ok THEN "ok" ELSE "ReconError",
                                 !.keys = DOMAIN allKeys']
    /\ UNCHANGED refreshCalls
    /\ RefreshFrame

\* a direct clearAllKeys call
ClearAllKeys ==
    /\ allKeys' = ClearedAllKeys(allKeys)
    /\ reconstructionTimestamp' = ClearedReconstructionTimestamp(allKeys)
    /\ UNCHANGED <<refreshTimer, refreshCalls, lastRefresh>>
    /\ RefreshFrame

\* performRefresh ends: its promise settles with result
RefreshDone(rec, result) ==
    /\ refreshCalls' = refreshCalls (-) SetToBag({rec})
    /\ lastRefresh' = [rec EXCEPT !.pc = "done", !.result = result,
                                  !.keys = DOMAIN allKeys']

\* performRefresh leaves through its catch block
RefreshCatch(rec, result) ==
    /\ allKeys' = KeysAfterCatch(allKeys)
    /\ reconstructionTimestamp' = ClearedReconstructionTimestamp(allKeys)
    /\ RefreshDone(rec, result)

RefreshAwait(rec, next) ==
    /\ refreshCalls' = (refreshCalls (-) SetToBag({rec})) (+) SetToBag({next})
    /\ UNCHANGED lastRefresh

\* performRefresh(collectedShares, originalMembers, newMembers, cb) up to
\* await this.reconstructAllKeys(...)
\* caller holds the locals of the calling frame that stays suspended on the
\* promise of performRefresh
PerformRefreshFrom(caller, collectedShares, originalMembers, newCount) ==
    /\ BagCardinality(refreshCalls) < MaxRefreshCalls
    /\ LET r == ReconstructAllKeysResult(collectedShares, originalMembers)
       IN  /\ ReconstructAllKeysEffect(r)
           /\ refreshCalls' = refreshCalls (+) SetToBag({
                  [caller EXCEPT
                      !.kind = "performRefresh", !.pc = "awaitRecon",
                      !.members = SeqRange(originalMembers),
                      !.newCount = newCount, !.reconOk = r.ok]})
    /\ UNCHANGED lastRefresh

PerformRefreshStart(collectedShares, originalMembers, newCount) ==
    PerformRefreshFrom(NoRefresh, collectedShares, originalMembers, newCount)

PerformRefresh(collectedShares, originalMembers, newCount) ==
    /\ PerformRefreshStart(collectedShares, originalMembers, newCount)
    /\ RefreshFrame

\* performRefresh resumes after reconstructAllKeys: catch, or resplitAllKeys
PrAfterRecon(rec) ==
    /\ rec.pc = "awaitRecon"
    /\ IF ~rec.reconOk
       THEN RefreshCatch(rec, "ReconError")
       ELSE /\ RefreshAwait(rec, [rec EXCEPT
                   !.pc = "awaitResplit", !.newCount = 0,
                   !.resplitOk = ResplitOk(allKeys, rec.newCount),
                   !.distArg = IF ResplitOk(allKeys, rec.newCount)
                               THEN DOMAIN allKeys ELSE {}])
            /\ UNCHANGED <<allKeys, reconstructionTimestamp>>
    /\ UNCHANGED refreshTimer
    /\ RefreshFrame

\* performRefresh resumes after resplitAllKeys: catch, or the callback is
\* invoked and either throws at once or returns a promise
PrAfterResplit(rec) ==
    /\ rec.pc = "awaitResplit"
    /\ IF ~rec.resplitOk
       THEN RefreshCatch(rec, "ResplitError")
       ELSE \/ RefreshCatch([rec EXCEPT !.distCalls = rec.distCalls + 1], "DistError")
            \/ /\ RefreshAwait(rec, [rec EXCEPT !.pc = "awaitDist",
                                                !.distCalls = rec.distCalls + 1])
               /\ UNCHANGED <<allKeys, reconstructionTimestamp>>
    /\ UNCHANGED refreshTimer
    /\ RefreshFrame

\* the callback's promise settles: clearAllKeys, or the catch block
PrDistSettles(rec) ==
    /\ rec.pc = "awaitDist"
    /\ \/ /\ allKeys' = ClearedAllKeys(allKeys)
          /\ reconstructionTimestamp' = ClearedReconstructionTimestamp(allKeys)
          /\ RefreshDone(rec, "ok")
       \/ RefreshCatch(rec, "DistError")
    /\ UNCHANGED refreshTimer
    /\ RefreshFrame

\* time passes; a refresh timer still armed at its deadline clears the keys
RefreshTick ==
    /\ now <= REFRESH_TIMEOUT_MS
    /\ now' = now + RefreshTickMs
    /\ IF refreshTimer # None /\ now' >= refreshTimer
       THEN /\ allKeys' = ClearedAllKeys(allKeys)
            /\ reconstructionTimestamp' = ClearedReconstructionTimestamp(allKeys)
            /\ refreshTimer' = None
       ELSE UNCHANGED <<allKeys, reconstructionTimestamp, refreshTimer>>
    /\ UNCHANGED <<refreshCalls, lastRefresh>>
    /\ UNCHANGED <<ownVars, shareVars, reconRes, myKey, keyTimestamp,
                   destructTimer, keySigns, inflight, lastDone, backupVars,
                   mgrVars, laterVars, tailVars>>

\* checkSecurity(): with keys in the map it reports false, and clears them
\* first when they are older than the ceiling
CheckSecurity ==
    /\ IF allKeys # EmptyMap
       THEN LET age == now - (IF reconstructionTimestamp = None THEN 0
                              ELSE reconstructionTimestamp)
            IN  /\ IF age > SECURITY_CEILING_MS
                   THEN /\ allKeys' = ClearedAllKeys(allKeys)
                        /\ reconstructionTimestamp' =
                               ClearedReconstructionTimestamp(allKeys)
                   ELSE UNCHANGED <<allKeys, reconstructionTimestamp>>
                /\ lastRefresh' = [NoRefresh EXCEPT !.kind = "checkSecurity",
                                                    !.result = "false",
                                                    !.keys = DOMAIN allKeys']
       ELSE /\ UNCHANGED <<allKeys, reconstructionTimestamp>>
            /\ lastRefresh' = [NoRefresh EXCEPT !.kind = "checkSecurity",
                                                !.result = "true"]
    /\ UNCHANGED <<refreshTimer, refreshCalls>>
    /\ RefreshFrame

\* time passes between the calls on a coordinator no call is suspended on
SecurityTick ==
    /\ now <= SECURITY_CEILING_MS
    /\ now' = now + SecurityTickMs
    /\ UNCHANGED <<allKeys, reconstructionTimestamp, refreshTimer, refreshCalls,
                   lastRefresh>>
    /\ UNCHANGED <<ownVars, shareVars, reconRes, myKey, keyTimestamp,
                   destructTimer, keySigns, inflight, lastDone, backupVars,
                   mgrVars, laterVars, tailVars>>

RefreshInit ==
    /\ allKeys = EmptyMap
    /\ reconstructionTimestamp = None
    /\ refreshTimer = None
    /\ refreshCalls = EmptyBag
    /\ lastRefresh = NoRefresh

(***************************************************************************)
(* CrossClusterBackupManager (reset-registry.js): recovery of a group that *)
(* lost most of its members from the backup bundles other groups hold.     *)
(***************************************************************************)
BackupSlots == 0..(BACKUP_KEYS - 1)

\* the 6-of-11 primary sharing of every slot's key
PrimarySharing ==
    [k \in BackupSlots |->
        SecretsShare(SlotSecret(k), RECOVERY_TOTAL,
                     [i \in 1..(RECOVERY_THRESHOLD - 1) |-> 1])]

\* primaryShares[n][keyIndex]: node n holds share n of every slot
PrimaryShares ==
    [n \in 1..RECOVERY_TOTAL |-> [k \in BackupSlots |-> PrimarySharing[k][n]]]

\* createBackupShares(primaryShares) with the random coefficients rnd:
\* bundle backupIndex holds share backupIndex of a 3-of-5 sharing of each key
CreateBackupShares(primaryShares, rnd) ==
    LET backupShareSets ==
            [k \in BackupSlots |->
                SecretsShare(
                    SecretsCombine([n \in 1..Len(primaryShares) |-> primaryShares[n][k]]),
                    BACKUP_TOTAL, rnd)]
    IN  [backupIndex \in 1..BACKUP_TOTAL |->
            [k \in BackupSlots |-> backupShareSets[k][backupIndex]]]

\* the bundles the group created before it failed
BackupBundles ==
    CreateBackupShares(PrimaryShares, [i \in 1..(BACKUP_THRESHOLD - 1) |-> 1])

\* the encryption collaborator: ciphertext for a recipient, and its inverse
EncryptForRecipient(share, recipient) == [cipher |-> share, recipient |-> recipient]
Decrypt(encShare) == encShare.cipher

\* requestBackupFromPeer: the encrypted bundle the backup node registered at
\* position i sends
PeerAnswer(i) ==
    [k \in BackupSlots |-> EncryptForRecipient(BackupBundles[i][k], 0)]

\* requestBackupSharesP2P(backupNodes) from node i on: the bundles collected;
\* answers[i] is FALSE when node i has no address or delivers nothing
RECURSIVE RequestBackupSharesP2P(_, _, _)
RequestBackupSharesP2P(answers, i, collected) ==
    IF i > Len(answers) \/ Len(collected) >= BACKUP_THRESHOLD THEN collected
    ELSE IF ~answers[i]
         THEN RequestBackupSharesP2P(answers, i + 1, collected)
         ELSE RequestBackupSharesP2P(answers, i + 1,
                  Append(collected, [k \in BackupSlots |-> Decrypt(PeerAnswer(i)[k])]))

\* the shares of slot keyIndex in a list of per-node share arrays
SharesForKey(nodeShares, keyIndex) ==
    [n \in 1..Len(nodeShares) |-> nodeShares[n][keyIndex]]

\* combinePrimaryAndBackup(primaryShares, backupShares) for one slot, with
\* the random coefficients rnd of the new sharing
CombineForKey(primaryShares, backupShares, keyIndex, rnd) ==
    LET sharesForThisKey == SharesForKey(primaryShares, keyIndex)
        backupSharesForKey == SharesForKey(backupShares, keyIndex)
    IN  IF Len(backupSharesForKey) >= BACKUP_THRESHOLD
        THEN LET reconstructedFromBackup ==
                     SecretsCombine(Slice(backupSharesForKey, BACKUP_THRESHOLD))
                 additionalShares ==
                     SecretsShare(reconstructedFromBackup, RECOVERY_TOTAL, rnd)
                 needed == IF RECOVERY_THRESHOLD - Len(sharesForThisKey) > 0
                           THEN RECOVERY_THRESHOLD - Len(sharesForThisKey) ELSE 0
             IN  sharesForThisKey \o [i \in 1..needed |-> additionalShares[i]]
        ELSE sharesForThisKey

CombinePrimaryAndBackup(primaryShares, backupShares, rnd) ==
    [k \in BackupSlots |-> CombineForKey(primaryShares, backupShares, k, rnd)]

\* remainingPrimaryShares: the share arrays of the first or the last p nodes
SurvivorLists ==
    UNION {{[i \in 1..p |-> i], [i \in 1..p |-> RECOVERY_TOTAL - p + i]} :
              p \in 0..MaxSurvivors}

\* the coefficients secrets.share draws for the new sharing
RecoveryCoefficients ==
    {[i \in 1..(RECOVERY_THRESHOLD - 1) |-> c] : c \in 1..MaxCoeff}

\* survivors: the nodes whose primary shares remain; registered: the number
\* of backup nodes getBackupNodes reports; answers: which of them deliver
RecoveryInputs ==
    [survivors : SurvivorLists,
     registered : {0, BACKUP_TOTAL},
     answers : [1..BACKUP_TOTAL -> BOOLEAN],
     rnd : RecoveryCoefficients]

NoRecIn == [survivors |-> <<>>, registered |-> 0,
            answers |-> [i \in 1..BACKUP_TOTAL |-> FALSE],
            rnd |-> [i \in 1..(RECOVERY_THRESHOLD - 1) |-> 1]]
NoRecOut == [op |-> "none", isNull |-> FALSE, collected |-> 0, shares |-> <<>>]

BackupFrame ==
    UNCHANGED <<ownVars, shareVars, reconRes, sessVars, refreshVars, mgrVars,
                laterVars, tailVars>>

\* recoverFromCatastrophicFailure(remainingPrimaryShares)
RecoverFromCatastrophicFailure ==
    /\ recOut.op = "none"
    /\ LET remainingPrimaryShares ==
               [n \in 1..Len(recIn.survivors) |-> PrimaryShares[recIn.survivors[n]]]
           backupSharesCollected ==
               RequestBackupSharesP2P(SubSeq(recIn.answers, 1, recIn.registered), 1, <<>>)
       IN  recOut' =
               IF recIn.registered = 0
               THEN [NoRecOut EXCEPT !.op = "recover", !.isNull = TRUE]
               ELSE IF Len(backupSharesCollected) < BACKUP_THRESHOLD
               THEN [NoRecOut EXCEPT !.op = "recover", !.isNull = TRUE,
                                     !.collected = Len(backupSharesCollected)]
               ELSE [NoRecOut EXCEPT
                        !.op = "recover",
                        !.collected = Len(backupSharesCollected),
                        !.shares = CombinePrimaryAndBackup(
                                       remainingPrimaryShares,
                                       backupSharesCollected, recIn.rnd)]
    /\ UNCHANGED <<recIn, clusterActive, clusterDead, storedBackups>>
    /\ BackupFrame

Clusters == 1..MaxClusters
\* this.myClusterId
MyClusterId == 1
\* the member counts getClusterState can report: from catastrophic to healthy
ActiveCounts == (ACTIVE_MIN_NODES - 1)..HEALTHY_MIN_NODES

\* getAllActiveClusters(): the confirmed groups with at least 6 active members
GetAllActiveClusters(active) == {c \in Clusters : active[c] >= ACTIVE_MIN_NODES}

\* a selection of healthy groups that applies the floor of the active groups
GetHealthyClustersAtActiveFloor(active) == GetAllActiveClusters(active)

\* getHealthyClusters(): of those, the groups with at least 9 active members
GetHealthyClusters(active) ==
    {c \in GetAllActiveClusters(active) : active[c] >= HEALTHY_MIN_NODES}

\* checkIfCatastrophicFailure(): this node's group has fewer than 6 members
CheckIfCatastrophicFailure(active) == active[MyClusterId] < ACTIVE_MIN_NODES

\* p2pNetwork.deleteBackupShares(sourceCluster)
DeleteBackupShares(stored, sourceCluster) == stored \ {sourceCluster}

\* cleanupStaleBackups(healthyClusters): every stored backup whose source
\* group is not in the healthy set is deleted
CleanupStaleBackups(stored, healthyClusters) ==
    {c \in stored : c \in healthyClusters}

\* rebalanceBackupShares(): what is stored afterwards
RebalanceResult(stored, active) ==
    LET healthyClusters == GetHealthyClusters(active)
    IN  IF Cardinality(healthyClusters) < 2 THEN stored
        ELSE IF MyClusterId \notin healthyClusters THEN stored
        ELSE CleanupStaleBackups(stored, healthyClusters)

\* the registry reports another member count for group c
SetActiveNodes(c, n) ==
    /\ clusterActive[c] # n
    /\ clusterActive' = [clusterActive EXCEPT ![c] = n]
    /\ UNCHANGED <<recIn, recOut, clusterDead, storedBackups>>
    /\ BackupFrame

\* p2pNetwork.storeBackupShares(sourceCluster, ...): a bundle of group c is
\* stored on this node
StoreBackupShares(c) ==
    /\ c \notin storedBackups
    /\ storedBackups' = storedBackups \cup {c}
    /\ UNCHANGED <<recIn, recOut, clusterActive, clusterDead>>
    /\ BackupFrame

\* rebalanceBackupShares(): at start, on ClusterConfirmed, every six hours
RebalanceBackupShares ==
    /\ storedBackups' = RebalanceResult(storedBackups, clusterActive)
    /\ UNCHANGED <<recIn, recOut, clusterActive, clusterDead>>
    /\ BackupFrame

\* the ClusterStateChanged handler for newState DEAD or INACTIVE
ClusterStateChanged(c) ==
    /\ c \notin clusterDead
    /\ clusterDead' = clusterDead \cup {c}
    /\ storedBackups' =
           DeleteBackupShares(RebalanceResult(storedBackups, clusterActive), c)
    /\ UNCHANGED <<recIn, recOut, clusterActive>>
    /\ BackupFrame

BackupInit ==
    /\ recIn = NoRecIn
    /\ recOut = NoRecOut
    /\ clusterActive = [c \in Clusters |-> RECOVERY_TOTAL]
    /\ clusterDead = {}
    /\ storedBackups = {}

(***************************************************************************)
(* ShamirMultisigManager (shamir-integration.js) and the ZNode handlers of *)
(* node-shamir-integrated.js that use it.                                  *)
(***************************************************************************)
ChainEpochs == 0..MaxChainEpoch

\* a share object as generateAndSplit builds it, reduced to its epoch field
ShareOf(epoch) == [held |-> TRUE, epoch |-> epoch]
\* this.myShare = null
NoShare == [held |-> FALSE, epoch |-> None]

\* encryptShare(share, key): the ciphertext of the share
EncryptShare(share) == [cipher |-> share]

\* decryptShare(encryptedShare, key): JSON.parse of the plaintext; decipher
\* .final / JSON.parse throw when ok is FALSE
DecryptShare(encryptedShare, ok) ==
    IF ok THEN encryptedShare.cipher ELSE NoShare

NoMgrRes == [op |-> "none", result |-> "none", epoch |-> None, triggered |-> 0]

\* hasValidShare()
HasValidShare(share, epoch) ==
    share # NoShare /\ share.epoch = epoch

MgrFrame ==
    UNCHANGED <<ownVars, shareVars, reconRes, sessVars, refreshVars, backupVars,
                laterVars, tailVars>>

\* initialize(): expired backup files are removed, then the backup of the
\* registry's epoch, if there is one and it decrypts, becomes the share held
MgrInitialize(expired, decryptOk) ==
    LET epoch == registryEpoch
        files == shareBackupFiles \ expired
        share == DecryptShare(EncryptShare(ShareOf(epoch)), decryptOk)
    IN  /\ expired \subseteq shareBackupFiles
        /\ shareBackupFiles' = files
        /\ IF epoch \in files /\ decryptOk
           THEN /\ myShare' = share
                /\ currentEpoch' = epoch
                /\ mgrRes' = [NoMgrRes EXCEPT !.op = "initialize", !.result = "true"]
           ELSE /\ UNCHANGED <<myShare, currentEpoch>>
                /\ mgrRes' = [NoMgrRes EXCEPT !.op = "initialize", !.result = "false"]
        /\ UNCHANGED <<registryEpoch, triggeredEpoch>>
        /\ MgrFrame

\* receiveShare(encryptedShare, epoch), encryptedShare holding a share of
\* epoch shareEpoch; backupOk: shamir.backupShare writes its file; commitOk:
\* registry.updateShareCommitment succeeds
ReceiveShare(shareEpoch, epoch, decryptOk, backupOk, commitOk) ==
    LET share == DecryptShare(EncryptShare(ShareOf(shareEpoch)), decryptOk)
    IN  /\ IF ~decryptOk
           THEN /\ UNCHANGED <<myShare, currentEpoch, shareBackupFiles>>
                /\ mgrRes' = [NoMgrRes EXCEPT !.op = "receiveShare", !.result = "false",
                                              !.epoch = epoch]
           ELSE IF share.epoch # epoch
           THEN /\ UNCHANGED <<myShare, currentEpoch, shareBackupFiles>>
                /\ mgrRes' = [NoMgrRes EXCEPT !.op = "receiveShare", !.result = "false",
                                              !.epoch = epoch]
           ELSE /\ myShare' = share
                /\ currentEpoch' = epoch
                /\ shareBackupFiles' = IF backupOk
                                       THEN shareBackupFiles \cup {share.epoch}
                                       ELSE shareBackupFiles
                /\ mgrRes' = [NoMgrRes EXCEPT
                                 !.op = "receiveShare",
                                 !.result = IF backupOk /\ commitOk
                                            THEN "true" ELSE "false",
                                 !.epoch = epoch]
        /\ UNCHANGED <<registryEpoch, triggeredEpoch>>
        /\ MgrFrame

\* the registry starts a resharing: ResharingTriggered(oldEpoch, newEpoch) is
\* emitted and the node runs handleResharing(oldEpoch, newEpoch, ...)
HandleResharing ==
    /\ registryEpoch < MaxChainEpoch
    /\ registryEpoch' = registryEpoch + 1
    /\ triggeredEpoch' = registryEpoch + 1
    /\ mgrRes' = [NoMgrRes EXCEPT
                     !.op = "handleResharing",
                     !.result = IF HasValidShare(myShare, currentEpoch)
                                   /\ currentEpoch = registryEpoch
                                THEN "participating" ELSE "notParticipating",
                     !.triggered = registryEpoch + 1]
    /\ UNCHANGED <<myShare, currentEpoch, shareBackupFiles>>
    /\ MgrFrame

\* participateInSigning(requestId): the share handed over and its epoch
ParticipateInSigning(share, epoch) ==
    IF share = NoShare THEN None ELSE share.epoch

\* handleSigningRequest(requestId, selectedSigners) of a selected signer
HandleSigningRequest ==
    /\ mgrRes' =
           IF ~HasValidShare(myShare, currentEpoch)
           THEN [NoMgrRes EXCEPT !.op = "handleSigningRequest",
                                 !.result = "NoValidShare",
                                 !.triggered = triggeredEpoch]
           ELSE [NoMgrRes EXCEPT !.op = "handleSigningRequest",
                                 !.result = "submitted",
                                 !.epoch = ParticipateInSigning(myShare, currentEpoch),
                                 !.triggered = triggeredEpoch]
    /\ UNCHANGED <<myShare, currentEpoch, registryEpoch, shareBackupFiles,
                   triggeredEpoch>>
    /\ MgrFrame

MgrInit ==
    /\ myShare = NoShare
    /\ currentEpoch = 0
    /\ registryEpoch = 0
    /\ shareBackupFiles = {}
    /\ triggeredEpoch = 0
    /\ mgrRes = NoMgrRes

(***************************************************************************)
(* MoneroShamirMultisig share backups (monero-shamir.js): one file per     *)
(* node and epoch, holding the encrypted share and an expiry.              *)
(***************************************************************************)
\* the node addresses backups are saved and loaded for
FsNodes == {OriginalNodes[1], OriginalNodes[2]}

\* `share_${nodeAddress}_epoch${epoch}.json`
ShareBackupFileName(nodeAddress, epoch) ==
    <<"share_", nodeAddress, "_epoch", epoch, ".json">>

NoLoad == [op |-> "none", nodeAddress |-> None, epoch |-> None, found |-> FALSE,
           backup |-> <<>>, at |-> 0, purged |-> FALSE]

\* a load that never finds a backup expired
BackupNeverExpired(time, expiresAt) == FALSE

\* if (Date.now() > backup.expiresAt)
BackupExpired(time, expiresAt) == time > expiresAt

FsFrame ==
    UNCHANGED <<ownVars, shareVars, reconRes, sessVars, refreshVars, backupVars,
                mgrVars, exVars, distVars, lookupVars, tailVars>>

\* backupShare(nodeAddress, share, encryptedShare) for a share of epoch
BackupShare(nodeAddress, epoch) ==
    /\ shareBackupDir' =
           MapSet(shareBackupDir, ShareBackupFileName(nodeAddress, ShareOf(epoch).epoch),
                  [nodeAddress |-> nodeAddress,
                   epoch |-> ShareOf(epoch).epoch,
                   encryptedShare |-> EncryptShare(ShareOf(epoch)),
                   createdAt |-> fsNow,
                   expiresAt |-> fsNow + BACKUP_EXPIRY_MS])
    /\ UNCHANGED <<fsNow, loadRes>>
    /\ FsFrame

\* loadShareBackup(nodeAddress, epoch)
LoadShareBackup(nodeAddress, epoch) ==
    LET filename == ShareBackupFileName(nodeAddress, epoch)
        call == [NoLoad EXCEPT !.op = "loadShareBackup", !.nodeAddress = nodeAddress,
                               !.epoch = epoch, !.at = fsNow]
    IN  /\ IF ~MapHas(shareBackupDir, filename)
           THEN /\ loadRes' = call
                /\ UNCHANGED shareBackupDir
           ELSE LET backup == shareBackupDir[filename]
                IN  IF BackupExpired(fsNow, backup.expiresAt)
                    THEN /\ shareBackupDir' = MapDelete(shareBackupDir, filename)
                         /\ loadRes' = [call EXCEPT !.purged = TRUE]
                    ELSE /\ loadRes' = [call EXCEPT !.found = TRUE, !.backup = backup]
                         /\ UNCHANGED shareBackupDir
        /\ UNCHANGED fsNow
        /\ FsFrame

\* cleanExpiredBackups(): every expired file is removed
CleanExpiredBackups ==
    /\ shareBackupDir' =
           [f \in {g \in DOMAIN shareBackupDir :
                      ~BackupExpired(fsNow, shareBackupDir[g].expiresAt)}
               |-> shareBackupDir[f]]
    /\ UNCHANGED <<fsNow, loadRes>>
    /\ FsFrame

\* time passes between the backup calls
FsTick ==
    /\ fsNow <= BACKUP_EXPIRY_MS
    /\ fsNow' = fsNow + FsTickMs
    /\ UNCHANGED <<shareBackupDir, loadRes>>
    /\ FsFrame

FsInit ==
    /\ shareBackupDir = EmptyMap
    /\ fsNow = 0
    /\ loadRes = NoLoad

(***************************************************************************)
(* ZNode.coordinateExchangeRound (node.js): one multisig key-exchange      *)
(* round of this node against the registry, with the peers submitting      *)
(* while it waits.                                                         *)
(***************************************************************************)
\* coordinateExchangeRound(clusterId, 3) and (clusterId, 4)
ExchangeRounds == {3, 4}

NoExCall == [pc |-> "idle", round |-> 0, waited |-> 0]
NoExRes == [op |-> "none", round |-> 0, ok |-> FALSE, applied |-> 0,
            complete |-> FALSE, waited |-> 0]

\* registry.getExchangeRoundStatus: complete once every node has submitted
ExchangeRoundStatus(round) ==
    LET submitted == exSubmitted[round] + (IF exOwn[round] THEN 1 ELSE 0)
    IN  [complete |-> submitted = CLUSTER_SIZE, submitted |-> submitted]

\* while (waited < maxWait): the loop ends once waited reaches maxWait
WaitedOut(waited) == ~(waited < EXCHANGE_MAX_WAIT)

ExFrame ==
    UNCHANGED <<ownVars, shareVars, reconRes, sessVars, refreshVars, backupVars,
                mgrVars, fsVars, distVars, lookupVars, tailVars>>

\* a peer's submitExchangeInfo for the round reaches the registry
PeerSubmits(round) ==
    /\ exSubmitted[round] < CLUSTER_SIZE - 1
    /\ exSubmitted' = [exSubmitted EXCEPT ![round] = @ + 1]
    /\ UNCHANGED <<exOwn, exCall, exRes>>
    /\ ExFrame

\* coordinateExchangeRound up to the wait loop: export_multisig_info and
\* submitExchangeInfo; an error of either returns false
SubmitMyExchangeInfo(round, ok) ==
    /\ exCall.pc = "idle"
    /\ IF ok
       THEN /\ exOwn' = [exOwn EXCEPT ![round] = TRUE]
            /\ exCall' = [pc |-> "wait", round |-> round, waited |-> 0]
            /\ UNCHANGED exRes
       ELSE /\ exRes' = [NoExRes EXCEPT !.op = "coordinateExchangeRound",
                                        !.round = round]
            /\ UNCHANGED <<exOwn, exCall>>
    /\ UNCHANGED exSubmitted
    /\ ExFrame

\* one turn of the wait loop: getExchangeRoundStatus, then break or 5 s more
PollExchangeRound ==
    /\ exCall.pc = "wait"
    /\ IF ExchangeRoundStatus(exCall.round).complete
       THEN exCall' = [exCall EXCEPT !.pc = "apply"]
       ELSE LET waited == exCall.waited + EXCHANGE_POLL
            IN  exCall' = [exCall EXCEPT
                              !.waited = waited,
                              !.pc = IF WaitedOut(waited) THEN "apply" ELSE "wait"]
    /\ UNCHANGED <<exSubmitted, exOwn, exRes>>
    /\ ExFrame

\* after the loop: getExchangeRoundInfo, the peers' non-empty infos, and
\* import_multisig_info with them; an error returns false
ApplyPeerInfos(ok) ==
    /\ exCall.pc = "apply"
    /\ exRes' = [op |-> "coordinateExchangeRound", round |-> exCall.round,
                 ok |-> ok,
                 applied |-> IF ok THEN exSubmitted[exCall.round] ELSE 0,
                 complete |-> ExchangeRoundStatus(exCall.round).complete,
                 waited |-> exCall.waited]
    /\ exCall' = NoExCall
    /\ UNCHANGED <<exSubmitted, exOwn>>
    /\ ExFrame

ExInit ==
    /\ exSubmitted = [r \in ExchangeRounds |-> 0]
    /\ exOwn = [r \in ExchangeRounds |-> FALSE]
    /\ exCall = NoExCall
    /\ exRes = NoExRes

(***************************************************************************)
(* CrossClusterBackupManager.distributeToOtherClusters (reset-registry.js):*)
(* the bundles of this node's group are handed to members of the other     *)
(* healthy groups.                                                         *)
(***************************************************************************)
\* what happens to one bundle in sendBackupToNode: delivered by
\* sendBackupToPeer, no entry in peerAddrs, sendBackupToPeer returns false,
\* or the encryption collaborator has no key for the recipient and throws
DeliveryOutcomes == {"sent", "noAddr", "sendFailed", "noKey"}

\* otherClusters: n healthy groups other than this node's
OtherClusters(n) == [i \in 1..n |-> MyClusterId + i]

\* others: the number of healthy groups passed in; outcome: per backup index;
\* assignFails: the backup index whose registry.assignBackupNode throws;
\* pick: the member index Math.random selects
DistributeInputs ==
    [others : 0..(MaxClusters - 1),
     outcome : [0..(BACKUP_TOTAL - 1) -> DeliveryOutcomes],
     assignFails : {None} \cup {0, BACKUP_TOTAL - 1},
     pick : {1, HEALTHY_MIN_NODES}]

NoDistIn == [others |-> 0, outcome |-> [i \in 0..(BACKUP_TOTAL - 1) |-> "sent"],
             assignFails |-> None, pick |-> 1]
\* backupNodes: the registry's list of backup nodes of this group, in the
\* order of registration; requests: the requests of requestBackupSharesP2P
NoDistRes == [op |-> "none", threw |-> FALSE, backupShares |-> <<>>, sent |-> {},
              storedLocally |-> {}, registered |-> {}, backupNodes |-> <<>>,
              requests |-> <<>>, collected |-> 0]

\* an assignment that hands every bundle to the first group
TargetClusterFirst(otherClusters, i) == otherClusters[1]

\* otherClusters[i % otherClusters.length]
TargetCluster(otherClusters, i) == otherClusters[(i % Len(otherClusters)) + 1]

\* the distribution list: bundle i goes to a member of its target group
Distribution(otherClusters, pick) ==
    [n \in 1..BACKUP_TOTAL |->
        [backupIndex |-> n - 1,
         targetCluster |-> TargetCluster(otherClusters, n - 1),
         targetNode |-> <<TargetCluster(otherClusters, n - 1), pick>>]]

\* registry.assignBackupNode(clusterId, node) and what getBackupNodes then
\* returns: the nodes in the order they were assigned
AssignBackupNode(backupNodes, node) == Append(backupNodes, [nodeAddress |-> node])

\* the loop over the distribution from position n on: sendBackupToNode, then
\* registry.assignBackupNode inside its try/catch
RECURSIVE SendBackups(_, _, _, _)
SendBackups(distribution, in, n, acc) ==
    IF n > Len(distribution) THEN acc
    ELSE LET dist == distribution[n]
             outcome == in.outcome[dist.backupIndex]
         IN  IF outcome = "noKey" THEN [acc EXCEPT !.threw = TRUE]
             ELSE SendBackups(distribution, in, n + 1,
                      [acc EXCEPT
                          !.sent = IF outcome = "sent"
                                   THEN @ \cup {dist.backupIndex} ELSE @,
                          !.storedLocally = IF outcome = "sent"
                                            THEN @ ELSE @ \cup {dist.backupIndex},
                          !.registered = IF in.assignFails = dist.backupIndex
                                         THEN @ ELSE @ \cup {dist.backupIndex},
                          !.backupNodes = IF in.assignFails = dist.backupIndex
                                          THEN @
                                          ELSE AssignBackupNode(@, dist.targetNode)])

DistFrame ==
    UNCHANGED <<ownVars, shareVars, reconRes, sessVars, refreshVars, backupVars,
                mgrVars, fsVars, exVars, lookupVars, tailVars>>

\* distributeToOtherClusters(backupShares, otherClusters)
DistributeToOtherClusters ==
    /\ distRes.op = "none"
    /\ IF distIn.others = 0
       THEN distRes' = [NoDistRes EXCEPT !.op = "distribute"]
       ELSE LET distribution == Distribution(OtherClusters(distIn.others), distIn.pick)
                done == SendBackups(distribution, distIn, 1,
                                    [NoDistRes EXCEPT !.op = "distribute"])
            IN  distRes' = IF done.threw THEN done
                           ELSE [done EXCEPT !.backupShares = distribution]
    /\ UNCHANGED distIn
    /\ DistFrame

(***************************************************************************)
(* RefreshWithOwnership.performRefreshWithTransfer and the readers of the  *)
(* ownership maps (key-ownership-manager.js).                              *)
(***************************************************************************)
\* performRefreshWithTransfer(collectedShares, leavingNode, joiningNode,
\* originalMembers, newMembers) up to its first await: transferKey, which
\* may throw, then performRefresh up to its own first await; newCount is
\* newMembers.length
PerformRefreshWithTransfer(collected, leaving, joining, members, newCount) ==
    /\ BagCardinality(refreshCalls) < MaxRefreshCalls
    /\ TransferKeyMaps(leaving, joining)
    /\ IF MapHas(nodeToKey, leaving)
       THEN PerformRefreshFrom(
                [NoRefresh EXCEPT !.leavingNode = leaving, !.joiningNode = joining,
                                  !.transferredKeyIndex = nodeToKey[leaving]],
                collected, members, newCount)
       ELSE UNCHANGED refreshVars
    /\ UNCHANGED <<ownInitialized, shareVars, reconRes, sessVars, backupVars,
                   mgrVars, laterVars, tailVars>>

\* the leaving and joining nodes of the refreshes with transfer: the first
\* original node and the first newcomer
TransferNodes == {OriginalNodes[1], TOTAL_KEYS + 1}

\* the nodes of the refreshes with transfer: an original node leaves, a
\* newcomer joins
LeavingNode == OriginalNodes[1]
JoiningNode == TOTAL_KEYS + 1

NoLookup == [op |-> "none", ownershipMap |-> EmptyMap,
             nodeForKey |-> [k \in Slots |-> None],
             keyForNode |-> [n \in Movers |-> None],
             last |-> NoRes, suspended |-> 0]

\* a reader between two awaits: getOwnershipMap(), getNodeForKey(k) for
\* every slot and getKeyForNode(n) for the nodes that move; last is the
\* outcome of the latest registry call, suspended the number of refreshes
\* with transfer that are waiting at an await
Lookup ==
    /\ lookupRes' = [op |-> "lookup",
                     ownershipMap |-> keyOwnership,
                     nodeForKey |-> [k \in Slots |-> GetNodeForKey(k)],
                     keyForNode |-> [n \in Movers |-> GetKeyForNode(n)],
                     last |-> ownRes,
                     suspended |-> BagCardinality(refreshCalls)]
    /\ UNCHANGED <<ownVars, shareVars, reconRes, sessVars, refreshVars, backupVars,
                   mgrVars, fsVars, exVars, distVars, tailVars>>

\* the node holds the file of bundle backupIndex: the bundle was delivered
\* to it by sendBackupToPeer
PeerHoldsBackup(node, in, backupIndex) ==
    /\ in.others > 0
    /\ backupIndex < BACKUP_TOTAL
    /\ in.outcome[backupIndex] = "sent"
    /\ Distribution(OtherClusters(in.others), in.pick)[backupIndex + 1].targetNode = node

\* this.peerAddrs.get(node): missing when a delivery to the node found none
PeerAddrKnown(node, in) ==
    ~\E b \in 0..(BACKUP_TOTAL - 1) :
        /\ in.outcome[b] = "noAddr"
        /\ Distribution(OtherClusters(in.others), in.pick)[b + 1].targetNode = node

\* the loop of requestBackupSharesP2P from position i (0-based) on: the
\* node at position i is asked for bundle i
RECURSIVE RequestLoop(_, _, _, _)
RequestLoop(backupNodes, in, i, acc) ==
    IF i >= Len(backupNodes) \/ acc.collected >= BACKUP_THRESHOLD THEN acc
    ELSE LET node == backupNodes[i + 1].nodeAddress
         IN  IF ~PeerAddrKnown(node, in)
             THEN RequestLoop(backupNodes, in, i + 1, acc)
             ELSE RequestLoop(backupNodes, in, i + 1,
                      [acc EXCEPT
                          !.requests = Append(@, [nodeAddress |-> node,
                                                  backupIndex |-> i]),
                          !.collected = IF PeerHoldsBackup(node, in, i)
                                        THEN @ + 1 ELSE @])

\* requestBackupSharesP2P(backupNodes) during a recovery, on the list the
\* registry returns after the distribution
RequestBackupsAfterDistribution ==
    /\ distRes.op = "distribute"
    /\ distRes' = RequestLoop(distRes.backupNodes, distIn, 0,
                              [distRes EXCEPT !.op = "request"])
    /\ UNCHANGED distIn
    /\ DistFrame

DistInit == distIn = NoDistIn /\ distRes = NoDistRes
LookupInit == lookupRes = NoLookup

LaterInit == FsInit /\ ExInit /\ DistInit /\ LookupInit

(***************************************************************************)
(* MoneroShamirMultisig.calculateOptimalThreshold (monero-shamir.js).      *)
(***************************************************************************)
\* Math.floor(totalNodes * 0.15): the double product of an integer below
\* 2^31 and 0.15 lies within a third of a unit in the last place of
\* 15 * totalNodes / 100, so it is that quotient exactly when the quotient
\* is an integer and has the same floor otherwise
FloorOfFifteenPercent(totalNodes) == (15 * totalNodes) \div 100

Max(a, b) == IF a >= b THEN a ELSE b

\* calculateOptimalThreshold(totalNodes): Math.max(8, Math.floor(n * 0.15))
CalculateOptimalThreshold(totalNodes) == Max(8, FloorOfFifteenPercent(totalNodes))

CalcFrame ==
    UNCHANGED <<ownVars, shareVars, reconRes, sessVars, refreshVars, backupVars,
                mgrVars, laterVars, electVars, staleVars>>

CalculateOptimalThresholdCall ==
    /\ thrOut = None
    /\ thrOut' = CalculateOptimalThreshold(thrIn)
    /\ UNCHANGED thrIn
    /\ CalcFrame

CalcInit == thrIn = 0 /\ thrOut = None

(***************************************************************************)
(* ZNode.monitorNetwork (node.js): once the forming cluster is full every  *)
(* node elects the coordinator from the data the registry shows.           *)
(***************************************************************************)
\* an address as the registry and the wallet give it (checksum case) and
\* what toLowerCase() makes of it
Address(id) == [id |-> id, lower |-> FALSE]
ToLowerCase(address) == [address EXCEPT !.lower = TRUE]

\* selectedNodes of a full forming cluster: 11 distinct members
SelectedNodes == [i \in 1..CLUSTER_SIZE |-> Address(i)]

\* the nodes running the monitor: the members and one node outside
ElectNodes == 1..(CLUSTER_SIZE + 1)

\* selectedNodes.map(a => a.toLowerCase()).indexOf(wallet.address.toLowerCase())
IndexOf(nodes, address) ==
    LET lowered == [i \in 1..Len(nodes) |-> ToLowerCase(nodes[i])]
        hits == {i \in 1..Len(nodes) : lowered[i] = ToLowerCase(address)}
    IN  IF hits = {} THEN -1
        ELSE (CHOOSE i \in hits : \A j \in hits : i <= j) - 1

\* seed = BigInt(lastSelection || 0), and when that is 0n the first 16 hex
\* digits of the clusterId
ElectionSeed(lastSelection, clusterIdPrefix) ==
    IF lastSelection = 0 THEN clusterIdPrefix ELSE lastSelection

\* an index taken modulo one more than the cluster size
CoordIndexOffByOne(seed) == seed % (CLUSTER_SIZE + 1)

\* Number(seed % 11n)
CoordIndex(seed) == seed % CLUSTER_SIZE

NoDecision == [role |-> "none", myIndex |-> -1, coordIndex |-> -1]

ElectFrame ==
    UNCHANGED <<ownVars, shareVars, reconRes, sessVars, refreshVars, backupVars,
                mgrVars, laterVars, calcVars, staleVars>>

\* the election part of node n's monitor tick on a full forming cluster
ElectCoordinator(n) ==
    /\ elDecision[n] = NoDecision
    /\ LET myIndex == IndexOf(SelectedNodes, Address(n))
           coordIndex == CoordIndex(ElectionSeed(elIn.lastSelection,
                                                 elIn.clusterIdPrefix))
       IN  elDecision' = [elDecision EXCEPT ![n] =
               IF myIndex >= 0
               THEN [role |-> IF myIndex = coordIndex THEN "coordinator"
                              ELSE "participant",
                     myIndex |-> myIndex, coordIndex |-> coordIndex]
               ELSE [role |-> "outside", myIndex |-> myIndex, coordIndex |-> -1]]
    /\ UNCHANGED elIn
    /\ ElectFrame

ElectInit ==
    /\ elIn = [lastSelection |-> 0, clusterIdPrefix |-> 0]
    /\ elDecision = [n \in ElectNodes |-> NoDecision]

(***************************************************************************)
(* ZNode.cleanupStaleCluster (node.js), called from every monitor tick.    *)
(***************************************************************************)
\* addrNum % JITTER_WINDOW_MS for the wallet addresses of the model
WalletJitters == {0, 1000, 45000, JITTER_WINDOW_MS - MONITOR_INTERVAL_MS}

\* _staleClusterStart is null (None) or a time; _lastCleanupAttempt is 0
\* until an attempt is made
NoStaleNode == [staleClusterStart |-> None, cleanupJitterMs |-> 0,
                lastCleanupAttempt |-> 0]

\* stale: completed, 11 nodes selected and no cluster id on the registry
NoForming == [stale |-> FALSE, lastSelMs |-> 0]

\* at: the time of the last attempt; gap: the time between the last two;
\* count: the attempts made, up to 2
\* the selections that stall: one made before the node started, longer ago
\* than the base delay, and one made as it starts
StallTimes == {MONITOR_START_MS - STALE_BACKDATE_MS, MONITOR_START_MS}

NoStaleLog == [at |-> None, gap |-> None, count |-> 0, result |-> "none"]

\* this._lastCleanupAttempt = 0 where stale tracking starts
LastAttemptAtTrackingStart(lastCleanupAttempt) == 0

\* the first time this stale cluster is noticed: start of tracking
\* (backdated when the cluster is older than the base delay) and jitter
StartStaleTracking(node, time, ageMs) ==
    IF node.staleClusterStart # None THEN node
    ELSE [staleClusterStart |-> IF ageMs > STALE_BASE_DELAY_MS
                                THEN time - STALE_BACKDATE_MS ELSE time,
          cleanupJitterMs |-> stWallet,
          lastCleanupAttempt |-> LastAttemptAtTrackingStart(node.lastCleanupAttempt)]

StaleFrame ==
    UNCHANGED <<ownVars, shareVars, reconRes, sessVars, refreshVars, backupVars,
                mgrVars, laterVars, calcVars, electVars>>

\* a monitor tick, 15 s after the last one: cleanupStaleCluster(). changed:
\* the forming cluster differs at the re-check; cleared: the transactions
\* clear the forming cluster
MonitorTick(changed, cleared) ==
    /\ stNow < MONITOR_START_MS + MaxStaleMs
    /\ stNow' = stNow + MONITOR_INTERVAL_MS
    /\ LET time == stNow'
           tracked == StartStaleTracking(stNode, time, time - stRegistry.lastSelMs)
           staleDuration == time - tracked.staleClusterStart
           effectiveDelay == STALE_BASE_DELAY_MS + tracked.cleanupJitterMs
       IN  IF ~stRegistry.stale
           THEN /\ stNode' = [stNode EXCEPT !.staleClusterStart = None]
                /\ stLog' = [stLog EXCEPT !.result = "false"]
                /\ UNCHANGED stRegistry
           ELSE IF staleDuration < effectiveDelay
           THEN /\ stNode' = tracked
                /\ stLog' = [stLog EXCEPT !.result = "false"]
                /\ UNCHANGED stRegistry
           ELSE IF /\ tracked.lastCleanupAttempt # 0
                   /\ time - tracked.lastCleanupAttempt < CLEANUP_RETRY_MS
           THEN /\ stNode' = tracked
                /\ stLog' = [stLog EXCEPT !.result = "false"]
                /\ UNCHANGED stRegistry
           ELSE IF changed
           THEN /\ stNode' = [tracked EXCEPT !.lastCleanupAttempt = time,
                                             !.staleClusterStart = None]
                /\ stRegistry' = NoForming
                /\ stLog' = [stLog EXCEPT !.result = "false"]
           ELSE /\ stNode' = [tracked EXCEPT !.lastCleanupAttempt = time,
                                             !.staleClusterStart = None]
                /\ stRegistry' = IF cleared THEN NoForming ELSE stRegistry
                /\ stLog' = [at |-> time,
                             gap |-> IF stLog.at = None THEN None ELSE time - stLog.at,
                             count |-> IF stLog.count < 2 THEN stLog.count + 1 ELSE 2,
                             result |-> "true"]
    /\ UNCHANGED stWallet
    /\ StaleFrame

\* as the node starts monitoring the registry shows a completed selection
\* of 11 nodes without cluster id, made at lastSelMs
FormingClusterStalls(lastSelMs) ==
    /\ ~stRegistry.stale
    /\ stNow = MONITOR_START_MS
    /\ stRegistry' = [stale |-> TRUE, lastSelMs |-> lastSelMs]
    /\ UNCHANGED <<stNode, stNow, stWallet, stLog>>
    /\ StaleFrame

StaleInit ==
    /\ stNode = NoStaleNode
    /\ stRegistry = NoForming
    /\ stNow = MONITOR_START_MS
    /\ stWallet = 0
    /\ stLog = NoStaleLog

TailInit == CalcInit /\ ElectInit /\ StaleInit

\* the components not used by a specification stay as constructed
OtherInit == RefreshInit /\ BackupInit /\ MgrInit /\ LaterInit /\ TailInit

(***************************************************************************)
(* Specifications.                                                         *)
(***************************************************************************)
ShareInit ==
    /\ tss = NoSplit
    /\ selected = NoSelection
    /\ wallets = [e \in Epochs |-> NoWallet]
    /\ reconRes = NoRecon

SessInit ==
    /\ myKey = None
    /\ keyTimestamp = None
    /\ destructTimer = None
    /\ keySigns = 0
    /\ now = 0
    /\ inflight = EmptyBag
    /\ lastDone = NoCall

OwnInit ==
    /\ keyOwnership = EmptyMap
    /\ nodeToKey = EmptyMap
    /\ ownInitialized = FALSE
    /\ ownRes = NoRes

\* the ownership registry alone
InitOwn == OwnInit /\ ShareInit /\ SessInit /\ OtherInit
NextOwn ==
    \/ \E nodes \in InitLists : InitializeOwnership(nodes)
    \/ \E l \in Movers, j \in Movers : TransferKey(l, j)
SpecOwn == InitOwn /\ [][NextOwn]_vars

\* TSSManager: the shares of one splitKey call and the reconstructKey calls
\* made with them
InitTSS ==
    /\ OwnInit
    /\ SessInit
    /\ OtherInit
    /\ tss \in SplitKeyResults(PrivateKeys)
    /\ selected = NoSelection
    /\ wallets = [e \in Epochs |-> NoWallet]
    /\ reconRes = NoRecon
NextTSS ==
    \E shares \in SubLists(tss.shares) : ReconstructKey(shares)
SpecTSS == InitTSS /\ [][NextTSS]_vars

\* epoch-tagged shares: MoneroShamirMultisig and ShamirMultisigManager
InitEpoch == OwnInit /\ ShareInit /\ SessInit /\ OtherInit
NextEpoch ==
    \/ \E n \in 2..MaxEpochShares, k \in 2..MaxEpochShares, e \in Epochs, key \in 0..MaxSecret :
          \E rnd \in Coefficients(k) : GenerateAndSplit(n, k, e, key, rnd)
    \/ \E shares \in EpochShareLists : Reconstruct(shares)
    \/ \E shares \in EpochShareLists : ReconstructAndSign(shares)
SpecEpoch == InitEpoch /\ [][NextEpoch]_vars

\* the registry and the signing session of one node
InitOwnSign == OwnInit /\ ShareInit /\ SessInit /\ OtherInit
NextOwnSign ==
    \/ InitializeOwnership(OriginalNodes)
    \/ \E l \in Movers, j \in Movers : TransferKey(l, j)
    \/ GetMySigningShares(SessionNode, AllMyShares)
    \/ ReconstructSelected
    \/ ClearMyKeyCall
SpecOwnSign == InitOwnSign /\ [][NextOwnSign]_vars

\* the same node on a registry that is also restored from snapshots
InitGate == OwnInit /\ ShareInit /\ SessInit /\ OtherInit
NextGate ==
    \/ InitializeOwnership(OriginalNodes)
    \/ \E state \in ImportStates : ImportState(state)
    \/ \E l \in Movers, j \in Movers : TransferKey(l, j)
    \/ GetMySigningShares(SessionNode, AllMyShares)
    \/ ReconstructSelected
    \/ ClearMyKeyCall
SpecGate == InitGate /\ [][NextGate]_vars

\* a signing node whose caller passes share arrays of every kind
InitSession == OwnInit /\ ShareInit /\ SessInit /\ OtherInit
NextSession ==
    \/ InitializeOwnership(OriginalNodes)
    \/ \E allMyShares \in SigningShareArrays :
           GetMySigningShares(SessionNode, allMyShares)
    \/ ReconstructSelected
    \/ ClearMyKeyCall
    \/ Tick
SpecSession == InitSession /\ [][NextSession]_vars

\* one signing session over the shares of its own key
InitSign ==
    /\ OwnInit
    /\ SessInit
    /\ OtherInit
    /\ tss = SessionSharing
    /\ selected = NoSelection
    /\ wallets = [e \in Epochs |-> NoWallet]
    /\ reconRes = NoRecon
NextSign ==
    \/ \E shares \in SessionShareLists : ReconstructMyKey(shares)
    \/ SignAndClear
    \/ \E rec \in Suspended : SignSettles(rec)
    \/ \E shares \in SessionShareLists : ReconstructSignClear(shares)
    \/ \E rec \in Suspended : RscAfterRecon(rec)
    \/ \E rec \in Suspended : RscAfterSac(rec)
    \/ ClearMyKeyCall
    \/ Tick
SpecSign == InitSign /\ [][NextSign]_vars

\* one RefreshCoordinator
InitRefresh == OwnInit /\ ShareInit /\ SessInit /\ OtherInit
NextRefresh ==
    \/ \E c \in CollectedSets, ms \in MemberLists, n \in NewMemberCounts :
          PerformRefresh(c, ms, n)
    \/ \E rec \in RefreshSuspended : PrAfterRecon(rec)
    \/ \E rec \in RefreshSuspended : PrAfterResplit(rec)
    \/ \E rec \in RefreshSuspended : PrDistSettles(rec)
    \/ \E c \in CollectedSets, ms \in MemberLists : ReconstructAllKeys(c, ms)
    \/ ClearAllKeys
    \/ RefreshTick
SpecRefresh == InitRefresh /\ [][NextRefresh]_vars

\* a coordinator whose health check runs between direct calls
InitSecurity == OwnInit /\ ShareInit /\ SessInit /\ OtherInit
NextSecurity ==
    \/ \E c \in CollectedSets, ms \in MemberLists : ReconstructAllKeys(c, ms)
    \/ ClearAllKeys
    \/ CheckSecurity
    \/ SecurityTick
SpecSecurity == InitSecurity /\ [][NextSecurity]_vars

\* one recoverFromCatastrophicFailure call on each of its inputs
InitRecover ==
    /\ OwnInit /\ ShareInit /\ SessInit /\ RefreshInit /\ MgrInit /\ LaterInit /\ TailInit
    /\ recIn \in RecoveryInputs
    /\ recOut = NoRecOut
    /\ clusterActive = [c \in Clusters |-> RECOVERY_TOTAL]
    /\ clusterDead = {}
    /\ storedBackups = {}
NextRecover == RecoverFromCatastrophicFailure
SpecRecover == InitRecover /\ [][NextRecover]_vars

\* the backup manager of one node monitoring the groups
InitBackup == OwnInit /\ ShareInit /\ SessInit /\ OtherInit
NextBackup ==
    \/ \E c \in Clusters, n \in ActiveCounts : SetActiveNodes(c, n)
    \/ \E c \in Clusters : StoreBackupShares(c)
    \/ RebalanceBackupShares
    \/ \E c \in Clusters : ClusterStateChanged(c)
SpecBackup == InitBackup /\ [][NextBackup]_vars

\* one node: its share manager, the registry's epoch and the node's handlers
InitNode == OwnInit /\ ShareInit /\ SessInit /\ OtherInit
NextNode ==
    \/ \E expired \in SUBSET ChainEpochs, decryptOk \in BOOLEAN :
           MgrInitialize(expired, decryptOk)
    \/ \E shareEpoch \in ChainEpochs, epoch \in ChainEpochs,
          decryptOk \in BOOLEAN, backupOk \in BOOLEAN, commitOk \in BOOLEAN :
           ReceiveShare(shareEpoch, epoch, decryptOk, backupOk, commitOk)
    \/ HandleResharing
    \/ HandleSigningRequest
SpecNode == InitNode /\ [][NextNode]_vars

\* the key-exchange rounds of one node with its peers submitting
InitExchange == OwnInit /\ ShareInit /\ SessInit /\ OtherInit
NextExchange ==
    \/ \E r \in ExchangeRounds : PeerSubmits(r)
    \/ \E r \in ExchangeRounds, ok \in BOOLEAN : SubmitMyExchangeInfo(r, ok)
    \/ PollExchangeRound
    \/ \E ok \in BOOLEAN : ApplyPeerInfos(ok)
SpecExchange == InitExchange /\ [][NextExchange]_vars

\* one distribution of the backup bundles, over the answers of the network
InitDistribute ==
    /\ OwnInit /\ ShareInit /\ SessInit
    /\ RefreshInit /\ BackupInit /\ MgrInit
    /\ FsInit /\ ExInit /\ LookupInit /\ TailInit
    /\ distIn \in DistributeInputs
    /\ distRes = NoDistRes
NextDistribute ==
    \/ DistributeToOtherClusters
    \/ RequestBackupsAfterDistribution
SpecDistribute == InitDistribute /\ [][NextDistribute]_vars

\* refreshes with transfer overlapping each other and readers of the maps
InitTransfer == OwnInit /\ ShareInit /\ SessInit /\ OtherInit
NextTransfer ==
    \/ InitializeOwnership(OriginalNodes)
    \/ \E l, j \in TransferNodes : TransferKey(l, j)
    \/ \E c \in CollectedSets :
          PerformRefreshWithTransfer(c, LeavingNode, JoiningNode, AllMembers,
                                     RESPLIT_THRESHOLD)
    \/ \E rec \in RefreshSuspended : PrAfterRecon(rec)
    \/ \E rec \in RefreshSuspended : PrAfterResplit(rec)
    \/ \E rec \in RefreshSuspended : PrDistSettles(rec)
    \/ Lookup
SpecTransfer == InitTransfer /\ [][NextTransfer]_vars

\* the monitor ticks of one node while forming clusters stall
InitStale ==
    /\ OwnInit /\ ShareInit /\ SessInit
    /\ RefreshInit /\ BackupInit /\ MgrInit /\ LaterInit /\ CalcInit /\ ElectInit
    /\ stNode = NoStaleNode
    /\ stRegistry = NoForming
    /\ stNow = MONITOR_START_MS
    /\ stWallet \in WalletJitters
    /\ stLog = NoStaleLog
NextStale ==
    \/ \E changed, cleared \in BOOLEAN : MonitorTick(changed, cleared)
    \/ \E lastSelMs \in StallTimes : FormingClusterStalls(lastSelMs)
SpecStale == InitStale /\ [][NextStale]_vars

\* the monitor ticks of the members of one full forming cluster
InitElect ==
    /\ OwnInit /\ ShareInit /\ SessInit
    /\ RefreshInit /\ BackupInit /\ MgrInit /\ LaterInit /\ CalcInit /\ StaleInit
    /\ elIn \in [lastSelection : 0..MaxSeed, clusterIdPrefix : {0, MaxSeed}]
    /\ elDecision = [n \in ElectNodes |-> NoDecision]
NextElect == \E n \in ElectNodes : ElectCoordinator(n)
SpecElect == InitElect /\ [][NextElect]_vars

\* the threshold for every number of nodes up to MaxTotalNodes
InitThreshold ==
    /\ OwnInit /\ ShareInit /\ SessInit
    /\ RefreshInit /\ BackupInit /\ MgrInit /\ LaterInit /\ ElectInit /\ StaleInit
    /\ thrIn \in 0..MaxTotalNodes
    /\ thrOut = None
NextThreshold == CalculateOptimalThresholdCall
SpecThreshold == InitThreshold /\ [][NextThreshold]_vars

\* the share backup files of two nodes over three days
InitFs == OwnInit /\ ShareInit /\ SessInit /\ OtherInit
NextFs ==
    \/ \E n \in FsNodes, e \in Epochs : BackupShare(n, e)
    \/ \E n \in FsNodes, e \in Epochs : LoadShareBackup(n, e)
    \/ CleanExpiredBackups
    \/ FsTick
SpecFs == InitFs /\ [][NextFs]_vars

(***************************************************************************)
(* Claims about the ownership registry.                                    *)
(***************************************************************************)

\* C1: after a successful initializeOwnership, verifyAllKeysOwned succeeds,
\* and after any sequence of transferKey calls (successful or failing) the
\* set of owned slots is still exactly 0..10 and every slot has one owner.
C1_OwnershipComplete ==
    ownInitialized =>
        /\ VerifyAllKeysOwned
        /\ DOMAIN keyOwnership = Slots
        /\ \A k \in Slots : GetNodeForKey(k) \in Nodes

\* a transfer has succeeded and another has failed on an initialized registry
C1_Witness ==
    /\ ownInitialized
    /\ ownRes.op = "transferKey"
    /\ ~ownRes.ok
    /\ \E k \in Slots : GetNodeForKey(k) \notin 1..TOTAL_KEYS

\* the ownership mapping is 1:1
OneToOne ==
    /\ Cardinality(DOMAIN nodeToKey) = Cardinality(DOMAIN keyOwnership)
    /\ \A n \in Nodes :
           Cardinality({k \in DOMAIN keyOwnership : keyOwnership[k] = n}) <= 1
    /\ \A k \in DOMAIN keyOwnership : GetKeyForNode(GetNodeForKey(k)) = k

\* C2: every transferKey call, also one whose joining node already owns a
\* slot, leaves the ownership mapping 1:1: as many node entries as slots, no
\* node owning two slots, getKeyForNode(getNodeForKey(k)) = k for every k.
C2_TransferKeepsOneToOne ==
    [][(OneToOne /\ ownRes'.op = "transferKey") => OneToOne']_vars

(***************************************************************************)
(* Claims about splitting and reconstruction.                              *)
(***************************************************************************)

\* C3: a reconstruction entry point fails when it is given fewer shares than
\* the threshold K the secret was split with, whatever K splitKey accepted,
\* and it never returns a value different from the secret that was split.
C3_ThresholdEnforced ==
    reconRes.op # "none" =>
        /\ (reconRes.count < tss.k => ~reconRes.ok)
        /\ (reconRes.ok => reconRes.value = CleanKey(tss.secret).hex)

\* C4: reconstruction from epoch-tagged shares (reconstructAndSign and
\* MoneroShamirMultisig.reconstruct) fails whenever the supplied shares carry
\* two different epochs.
C4_EpochIsolation ==
    (reconRes.op \in {"reconstruct", "reconstructAndSign"}
        /\ Cardinality(reconRes.epochs) > 1) => ~reconRes.ok

\* C5: for every secret S and every (K, N) with 1 < K <= N, reconstructKey on
\* any K of the N shares of splitKey(S, N, K) returns S (as hex, without the
\* 0x prefix splitKey removes).
C5_RoundTrip ==
    (reconRes.op = "reconstructKey" /\ ~tss.err /\ reconRes.count = tss.k) =>
        /\ reconRes.ok
        /\ reconRes.value = CleanKey(tss.secret).hex

(***************************************************************************)
(* Claims about the signing session.                                       *)
(***************************************************************************)
\* every call the session knows of: suspended, or the last one that ended
CallRecords == Suspended \cup {lastDone}

\* C6: a signAndClear call made more than MAX_KEY_LIFETIME_MS after the key
\* it finds was reconstructed fails with a key-expired error, does not invoke
\* the signing function and leaves the session holding no key.
C6_ExpiredKeyRefused ==
    \A c \in CallRecords :
        c.late => /\ c.sacResult = "KeyExpired"
                  /\ ~c.invoked
                  /\ ~c.sacKeyHeld

\* a direct signAndClear call found a key older than the TTL
C6_Witness ==
    /\ lastDone.kind = "signAndClear"
    /\ lastDone.late
    /\ lastDone.result = "KeyExpired"
    /\ myKey = None

\* C7: a reconstructed key is forcibly cleared when its TTL elapses even if
\* no further call is made: the session never holds a key older than
\* MAX_KEY_LIFETIME_MS, and no sign call is still pending on such a key.
C7_KeyClearedWithinTTL ==
    myKey # None =>
        /\ now - keyTimestamp <= MAX_KEY_LIFETIME_MS
        /\ \A c \in Suspended :
              c.pc = "awaitSign" => now - keyTimestamp <= MAX_KEY_LIFETIME_MS

\* C8: whenever signAndClear has invoked the signing function, the session
\* holds no key when signAndClear returns or throws, whether the signing
\* function returned a signature, rejected or threw, and a signing error
\* reaches the caller.
C8_ClearedOnEveryExit ==
    \A c \in CallRecords :
        (c.invoked /\ c.sacResult # "none") =>
            /\ ~c.sacKeyHeld
            /\ (c.sf \in {"reject", "throw"} => c.sacResult = "SignError")
            /\ (c.sf = "sig" => c.sacResult = "Signature")
            /\ (c.pc = "done" => c.result = c.sacResult)

\* a signAndClear call whose signing function rejected has ended
C8_Witness ==
    /\ lastDone.invoked
    /\ lastDone.sf = "reject"
    /\ lastDone.result = "SignError"
    /\ myKey = None

\* C9: the signing function is never invoked a second time with the same
\* reconstructed key, under any interleaving of signAndClear and
\* reconstructSignClear calls on one session.
C9_SignedAtMostOnce == keySigns <= 1

(***************************************************************************)
(* Claims about the signing node and the registry.                         *)
(***************************************************************************)

\* C10: whenever the session of a node reconstructs a key, the shares it is
\* handed are those of the slot the registry assigns to the node at that
\* moment, so a node that has left by transferKey reconstructs nothing.
C10_ReconstructsOnlyOwnedSlot ==
    [][(selected.ok /\ ~selected'.ok /\ reconRes'.ok) =>
          GetKeyForNode(SessionNode) = selected.myKeyIndex]_vars

(***************************************************************************)
(* Claims about the refresh coordinator.                                   *)
(***************************************************************************)
\* every performRefresh call the coordinator knows of
RefreshRecords == RefreshSuspended \cup {lastRefresh}

\* C11: whenever a performRefresh call returns or throws (reconstruction,
\* re-split or the distribution callback failed, or all went well), the
\* coordinator's key map is empty at that moment.
C11_RefreshLeavesNoKeys ==
    lastRefresh.kind = "performRefresh" => lastRefresh.keys = {}

\* a performRefresh call whose distribution callback failed has ended
C11_Witness ==
    /\ lastRefresh.kind = "performRefresh"
    /\ lastRefresh.result = "DistError"
    /\ lastRefresh.distCalls = 1
    /\ allKeys = EmptyMap

\* C12: after a successful reconstructAllKeys the key map holds a secret for
\* each retiring member and no other entry.
C12_ExactlyRetiringKeys ==
    (lastRefresh.kind = "reconstructAllKeys" /\ lastRefresh.reconOk) =>
        lastRefresh.keys = lastRefresh.members

\* C13: a refresh that overruns the hard timeout is aborted and its keys
\* are cleared: no performRefresh call is still waiting for its distribution
\* callback, with keys in the map, more than REFRESH_TIMEOUT_MS after they
\* were reconstructed.
C13_RefreshTimeoutClears ==
    \A c \in RefreshSuspended :
        (c.pc = "awaitDist" /\ allKeys # EmptyMap) =>
            now - reconstructionTimestamp <= REFRESH_TIMEOUT_MS

\* C14: within one performRefresh call the distribution callback is invoked
\* at most once, only after every retiring member's key was reconstructed
\* and re-split, and never when reconstruction or re-split failed.
C14_RefreshStepsInOrder ==
    \A c \in RefreshRecords :
        c.kind = "performRefresh" =>
            /\ c.distCalls <= 1
            /\ c.distCalls = 1 =>
                  /\ c.reconOk
                  /\ c.resplitOk
                  /\ c.members \subseteq c.distArg
            /\ c.result \in {"ReconError", "ResplitError"} => c.distCalls = 0

(***************************************************************************)
(* Claims about the cross-group backup manager.                            *)
(***************************************************************************)
\* the first RECOVERY_THRESHOLD shares returned for a slot reconstruct its key
UsableShares(shares, k) ==
    /\ Len(shares) >= RECOVERY_THRESHOLD
    /\ SecretsCombine(Slice(shares, RECOVERY_THRESHOLD)) = SlotSecret(k)

C16_OnlyDeadBackupsDeleted ==
    [][\A c \in Clusters :
          (c \in storedBackups /\ c \notin storedBackups') => c \in clusterDead']_vars

(***************************************************************************)
(* Claims about the epoch a node tracks.                                   *)
(***************************************************************************)
\* C17: the epoch a node tracks never decreases across initialize and
\* receiveShare calls: a receiveShare for a lower epoch is rejected.
C17_EpochNeverDecreases == [][currentEpoch' >= currentEpoch]_vars

\* C18: after ResharingTriggered(oldEpoch, newEpoch) the node submits no
\* share to a signing request until it holds a share of newEpoch: a share
\* submitted is of the newest epoch a resharing was triggered for.
C18_NoOldShareAfterBump ==
    (mgrRes.op = "handleSigningRequest" /\ mgrRes.result = "submitted") =>
        mgrRes.epoch >= mgrRes.triggered

(***************************************************************************)
(* Claims about the calls of the ownership registry.                       *)
(***************************************************************************)
\* what a transferKey(leavingNode, joiningNode) step does apart from what it
\* leaves in nodeToKey for leavingNode: it fails exactly when leavingNode owns
\* no slot and then changes neither map; otherwise it returns the slot of
\* leavingNode, that slot is joiningNode's, every other slot keeps its owner
TransferKeyStep(leavingNode, joiningNode) ==
    IF ~ownRes'.ok
    THEN /\ ~MapHas(nodeToKey, leavingNode)
         /\ keyOwnership' = keyOwnership
         /\ nodeToKey' = nodeToKey
    ELSE /\ MapHas(nodeToKey, leavingNode)
         /\ ownRes'.val = nodeToKey[leavingNode]
         /\ MapHas(keyOwnership', ownRes'.val)
         /\ keyOwnership'[ownRes'.val] = joiningNode
         /\ \A k \in Slots \ {ownRes'.val} :
               /\ MapHas(keyOwnership', k) = MapHas(keyOwnership, k)
               /\ MapHas(keyOwnership, k) => keyOwnership'[k] = keyOwnership[k]

\* C19: transferKey(leaving, joining) fails when leaving owns no slot and then
\* changes nothing; when it succeeds it returns the slot s leaving owned,
\* afterwards getNodeForKey(s) = joining and getKeyForNode(leaving) fails, and
\* the owner of every other slot is unchanged.
C19_TransferFrameEffect ==
    [][ownRes'.op = "transferKey" =>
          /\ TransferKeyStep(ownRes'.a, ownRes'.b)
          /\ ownRes'.ok => ~MapHas(nodeToKey', ownRes'.a)]_vars

\* C19 as the code has it: getKeyForNode(leaving) fails afterwards when the
\* joining node is another node than the leaving one; a transfer of a slot
\* to its own owner succeeds and leaves the owner in place.
C19_TransferFrameEffectOtherNode ==
    [][ownRes'.op = "transferKey" =>
          /\ TransferKeyStep(ownRes'.a, ownRes'.b)
          /\ (ownRes'.ok /\ ownRes'.a # ownRes'.b) => ~MapHas(nodeToKey', ownRes'.a)
          /\ (ownRes'.ok /\ ownRes'.a = ownRes'.b) =>
                /\ MapHas(nodeToKey', ownRes'.a)
                /\ nodeToKey'[ownRes'.a] = ownRes'.val]_vars

C19_Witness ==
    /\ ownRes.op = "transferKey" /\ ownRes.ok
    /\ ownRes.a # ownRes.b
    /\ GetNodeForKey(ownRes.val) = ownRes.b
    /\ GetKeyForNode(ownRes.a) = None

\* C20: an initializeOwnership call on a registry that has been initialized
\* is an error and leaves the ownership mapping as it was.
C20_SecondInitializeRejected ==
    [][(ownInitialized /\ ownRes'.op = "initializeOwnership") =>
          /\ ~ownRes'.ok
          /\ keyOwnership' = keyOwnership
          /\ nodeToKey' = nodeToKey]_vars

(***************************************************************************)
(* Claims about the gate before a signing round.                           *)
(***************************************************************************)
\* C21: shares are selected for signing and a key is reconstructed from them
\* only on a registry on which verifyAllKeysOwned succeeds: with a slot that
\* has no owner the signing round is refused.
C21_NoSigningWithPartialOwnership ==
    [][/\ (~selected.ok /\ selected'.ok) => VerifyAllKeysOwned
       /\ (selected.ok /\ ~selected'.ok /\ reconRes'.ok) => VerifyAllKeysOwned]_vars

(***************************************************************************)
(* Claims about the inputs and the error paths of the signing session.     *)
(***************************************************************************)
\* the shares of a list carry pairwise different ids
DistinctIds(shares) ==
    \A i, j \in 1..Len(shares) : i # j => shares[i].id # shares[j].id

\* C23: reconstructMyKey fails when the shares it is handed are not pairwise
\* distinct by share index, for example six copies of one share.
C23_DuplicateSharesRejected ==
    [][(selected.ok /\ ~selected'.ok /\ reconRes'.ok) =>
          DistinctIds(selected.myShares)]_vars

\* C24: after a reconstructMyKey call that fails the session holds no key,
\* also when it held one from an earlier successful reconstruction.
C24_FailedReconstructionClears ==
    (reconRes.op = "reconstructMyKey" /\ ~reconRes.ok) => myKey = None

\* C29: clearMyKey in any session state leaves the session without key and
\* without timestamp, and a call on a session without key changes nothing.
C29_ClearMyKeyIdempotent ==
    [][ClearMyKeyCall =>
          /\ myKey' = None
          /\ keyTimestamp' = None
          /\ myKey = None => UNCHANGED vars]_vars

\* a key that outlived its lifetime was cleared by clearMyKey: no sign call
\* was ever made and no timer was armed
C29_Witness ==
    /\ reconRes.op = "reconstructMyKey" /\ reconRes.ok
    /\ myKey = None /\ keyTimestamp = None
    /\ now > MAX_KEY_LIFETIME_MS
    /\ lastDone = NoCall /\ inflight = EmptyBag

(***************************************************************************)
(* Claims about the coordinator's health check.                            *)
(***************************************************************************)
\* some reconstructed key is older than the ceiling
KeysLingered ==
    /\ allKeys # EmptyMap
    /\ reconstructionTimestamp # None
    /\ now - reconstructionTimestamp > SECURITY_CEILING_MS

\* C25: checkSecurity returns false exactly when some reconstructed key has
\* lingered past the 5-second ceiling, the key map is empty after a false,
\* and it returns true without keys or with keys within the ceiling.
C25_CheckSecurityFlagsLingering ==
    [][CheckSecurity =>
          /\ (lastRefresh'.result = "false") = KeysLingered
          /\ lastRefresh'.result = "false" => allKeys' = EmptyMap]_vars

(***************************************************************************)
(* Claims about the share backup files.                                    *)
(***************************************************************************)
\* C26: loadShareBackup(node, epoch) returns a backup only if one was saved
\* for exactly that node and epoch and its 48-hour expiry has not passed; a
\* load after the expiry returns null and removes the file, and a file only
\* comes back by a new backupShare for that node and epoch.
C26_LoadOnlyUnexpiredBackup ==
    [][/\ \A n \in FsNodes, e \in Epochs :
             LoadShareBackup(n, e) =>
                LET filename == ShareBackupFileName(n, e)
                    saved == MapHas(shareBackupDir, filename)
                IN  /\ loadRes'.found =>
                          /\ saved
                          /\ loadRes'.backup.nodeAddress = n
                          /\ loadRes'.backup.epoch = e
                          /\ loadRes'.backup.createdAt + 172800000 >= fsNow
                    /\ (saved /\ shareBackupDir[filename].createdAt + 172800000 < fsNow) =>
                          /\ ~loadRes'.found
                          /\ ~MapHas(shareBackupDir', filename)
       /\ \A n \in FsNodes, e \in Epochs :
             (/\ ~MapHas(shareBackupDir, ShareBackupFileName(n, e))
              /\ MapHas(shareBackupDir', ShareBackupFileName(n, e))) => BackupShare(n, e)]_vars

\* a load after the expiry found the file and removed it, while the backup of
\* another epoch of the same node is still there
C26_Witness ==
    /\ loadRes.op = "loadShareBackup" /\ loadRes.purged /\ ~loadRes.found
    /\ ~MapHas(shareBackupDir, ShareBackupFileName(loadRes.nodeAddress, loadRes.epoch))
    /\ \E e \in Epochs : MapHas(shareBackupDir, ShareBackupFileName(loadRes.nodeAddress, e))

(***************************************************************************)
(* Claims about the health of the groups.                                  *)
(***************************************************************************)
\* C28: by its number n of active members a group is healthy iff n >= 9,
\* catastrophic iff n < 6 and degraded otherwise; getHealthyClusters returns
\* exactly the groups with n >= 9, never a catastrophic one, and
\* checkIfCatastrophicFailure is true exactly when this node's group has n < 6.
C28_HealthPartition ==
    LET healthy == GetHealthyClusters(clusterActive)
        catastrophic == {c \in Clusters : clusterActive[c] < 6}
        degraded == {c \in Clusters : clusterActive[c] \in 6..8}
    IN  /\ healthy = {c \in Clusters : clusterActive[c] >= 9}
        /\ healthy \cap catastrophic = {}
        /\ healthy \cap degraded = {}
        /\ healthy \cup degraded \cup catastrophic = Clusters
        /\ CheckIfCatastrophicFailure(clusterActive) <=> MyClusterId \in catastrophic
        /\ CheckIfCatastrophicFailure(clusterActive) => MyClusterId \notin healthy

\* this node's group is catastrophic while one other group is degraded and
\* another one healthy
C28_Witness ==
    /\ CheckIfCatastrophicFailure(clusterActive)
    /\ \E c, d \in Clusters :
          /\ clusterActive[c] \in 6..8
          /\ c \notin GetHealthyClusters(clusterActive)
          /\ clusterActive[d] >= 9
          /\ d \in GetHealthyClusters(clusterActive)

(***************************************************************************)
(* Claims about the key-exchange rounds.                                   *)
(***************************************************************************)
\* C30: a node applies the peers' exchange infos of a round only after all 11
\* nodes have submitted for that round: a round that is not complete never
\* ends with a partial set of peer infos applied.
C30_AppliesOnlyCompleteRound ==
    (exRes.op = "coordinateExchangeRound" /\ exRes.ok) =>
        /\ exRes.complete
        /\ exRes.applied = CLUSTER_SIZE - 1

C22_LookupsSeeWholeTransfer ==
    (lookupRes.op = "lookup" /\ lookupRes.last.op = "transferKey") =>
        LET t == lookupRes.last
        IN  IF t.ok
            THEN /\ lookupRes.ownershipMap[t.val] = t.b
                 /\ lookupRes.nodeForKey[t.val] = t.b
                 /\ lookupRes.keyForNode[t.b] = t.val
                 /\ t.a # t.b => lookupRes.keyForNode[t.a] = None
            ELSE lookupRes.keyForNode[t.a] = None

\* a lookup made while two refreshes with transfer are suspended, the latest
\* transfer having moved a slot to another node
C22_Witness ==
    /\ lookupRes.op = "lookup"
    /\ lookupRes.suspended = 2
    /\ lookupRes.last.op = "transferKey" /\ lookupRes.last.ok
    /\ lookupRes.last.a # lookupRes.last.b
    /\ lookupRes.nodeForKey[lookupRes.last.val] = lookupRes.last.b
    /\ lookupRes.keyForNode[lookupRes.last.a] = None

(***************************************************************************)
(* Claims about the threshold calculation.                                 *)
(***************************************************************************)
\* C39: calculateOptimalThreshold returns at least 8 for every totalNodes,
\* and for every totalNodes whose 15 percent exceeds 8 the result lies
\* between 15 and 20 percent of totalNodes.
C39_ThresholdWithinBand ==
    thrOut # None =>
        /\ thrOut >= 8
        /\ 15 * thrIn > 8 * 100 =>
              /\ 100 * thrOut >= 15 * thrIn
              /\ 100 * thrOut <= 20 * thrIn

(***************************************************************************)
(* Claims about the coordinator election.                                  *)
(***************************************************************************)
\* C38: for a full forming cluster of 11 distinct members the coordinator
\* index depends only on the shared data (lastSelection, or the clusterId
\* when lastSelection is 0): every member computes the same index in 0..10,
\* and exactly one member considers itself coordinator.
C38_OneCoordinator ==
    LET members == 1..CLUSTER_SIZE
        decided == {n \in members : elDecision[n].role # "none"}
        expected == IF elIn.lastSelection # 0 THEN elIn.lastSelection % 11
                    ELSE elIn.clusterIdPrefix % 11
    IN  /\ \A n \in decided :
              /\ elDecision[n].coordIndex = expected
              /\ elDecision[n].coordIndex \in 0..10
              /\ elDecision[n].myIndex = n - 1
        /\ Cardinality({n \in decided : elDecision[n].role = "coordinator"}) <= 1
        /\ decided = members =>
              Cardinality({n \in members : elDecision[n].role = "coordinator"}) = 1
        /\ elDecision[CLUSTER_SIZE + 1].role # "coordinator"

\* every member has run its tick on a cluster whose lastSelection is 0, the
\* seed coming from the clusterId, and the member at index 1 is coordinator
C38_Witness ==
    /\ \A n \in ElectNodes : elDecision[n].role # "none"
    /\ elIn.lastSelection = 0 /\ elIn.clusterIdPrefix = MaxSeed
    /\ elDecision[(MaxSeed % CLUSTER_SIZE) + 1].role = "coordinator"

(***************************************************************************)
(* Claims about the stale-cluster cleanup.                                 *)
(***************************************************************************)
\* C37: a node makes at most one on-chain stale-cluster cleanup attempt per
\* 5 minutes over any sequence of 15-second monitor ticks, also on the ticks
\* that follow a completed attempt while the forming cluster is still stale.
C37_OneCleanupPerFiveMinutes ==
    stLog.gap # None => stLog.gap >= 5 * 60 * 1000

(***************************************************************************)
(* Claims about receiving a share.                                         *)
(***************************************************************************)
\* C35: when receiveShare returns false the node's held share and tracked
\* epoch are as before the call, also when the failure is in writing the
\* local backup or in publishing the share commitment.
C35_FailedReceiveKeepsShare ==
    [][(/\ \E shareEpoch, epoch \in ChainEpochs, decryptOk, backupOk, commitOk \in BOOLEAN :
              ReceiveShare(shareEpoch, epoch, decryptOk, backupOk, commitOk)
        /\ mgrRes'.result = "false") =>
           /\ myShare' = myShare
           /\ currentEpoch' = currentEpoch]_vars

(***************************************************************************)
(* Claims about overlapping refreshes.                                     *)
(***************************************************************************)
\* the callback of every performRefresh call that reached its distribution
\* received share sets for exactly the call's own retiring members
OwnKeysDistributed(calls) ==
    \A rec \in calls :
        (rec.kind = "performRefresh" /\ rec.distCalls > 0) => rec.distArg = rec.members

\* no call in flight has reconstructed its keys and still waits to re-split
NoneAwaitsResplit(calls) ==
    \A rec \in calls : ~(rec.kind = "performRefresh" /\ rec.pc = "awaitRecon" /\ rec.reconOk)

\* C36: two performRefresh calls that overlap on one coordinator do not
\* interfere: each call's distribution callback receives share sets for
\* exactly the keys of its own retiring members, and the clear of one call
\* never removes keys that another call in flight has reconstructed but not
\* yet re-split.
C36_OverlappingRefreshesIsolated ==
    [][/\ OwnKeysDistributed(BagToSet(refreshCalls') \cup {lastRefresh'})
       /\ (/\ refreshCalls' # refreshCalls
           /\ allKeys # EmptyMap
           /\ allKeys' = EmptyMap) => NoneAwaitsResplit(BagToSet(refreshCalls'))]_vars

(***************************************************************************)
(* Claims about a failing refresh with transfer.                           *)
(***************************************************************************)
RefreshErrors == {"ReconError", "ResplitError", "DistError"}

\* C34: if the refresh inside performRefreshWithTransfer fails, the ownership
\* registry is left as it was before the call: the leaving node still owns
\* its slot and the joining node owns none.
C34_FailedRefreshKeepsOwnership ==
    [][(/\ lastRefresh' # lastRefresh
        /\ lastRefresh'.transferredKeyIndex # None
        /\ lastRefresh'.leavingNode # lastRefresh'.joiningNode
        /\ lastRefresh'.result \in RefreshErrors)
       => /\ MapHas(nodeToKey', lastRefresh'.leavingNode)
          /\ keyOwnership'[lastRefresh'.transferredKeyIndex] = lastRefresh'.leavingNode
          /\ ~MapHas(nodeToKey', lastRefresh'.joiningNode)]_vars

(***************************************************************************)
(* Claims about the holders of the backup bundles.                         *)
(***************************************************************************)
\* the bundles of the distribution that were delivered to node
BundlesHeldBy(node) ==
    {i \in 1..Len(distRes.backupShares) :
        /\ distRes.backupShares[i].targetNode = node
        /\ distRes.backupShares[i].backupIndex \in distRes.sent}

OneSharing(shares, k) ==
    LET primary == {PrimaryShares[n][k] : n \in 1..RECOVERY_TOTAL}
        fresh == SeqRange(SecretsShare(SlotSecret(k), RECOVERY_TOTAL, recIn.rnd))
    IN  SeqRange(shares) \subseteq primary \/ SeqRange(shares) \subseteq fresh

\* C31: for every slot the share list returned by
\* recoverFromCatastrophicFailure / combinePrimaryAndBackup consists of
\* shares of one single sharing of the slot's secret: surviving primary
\* shares are never mixed in one list with shares of a fresh re-split.
C31_RecoveredSharesOfOneSharing ==
    (recOut.op = "recover" /\ ~recOut.isNull) =>
        \A k \in BackupSlots : OneSharing(recOut.shares[k], k)

====
